---- MODULE Spec2Model ----
(***************************************************************************)
(* Background-job core of the medical imaging platform                     *)
(* (medical_imaging/tasks.py): process_dicom_images_async,                 *)
(* generate_patient_report_async and their collaborators -- the cache      *)
(* lock, the ImagingStudy / DicomImage / TaskStatus / AuditLog / Patient / *)
(* PatientReport tables and the Celery message queue.                      *)
(*                                                                         *)
(* Every database or cache round trip of a task is one atomic step; the    *)
(* ORM objects a task holds in memory (study, task_status) are local       *)
(* copies that save() writes back as a whole row.                          *)
(*                                                                         *)
(* Schema: tasks.py reads and writes the ImagingStudy columns              *)
(* error_message, processing_version and retention_until and the AuditLog  *)
(* columns actor_type and tenant_id, which models.py does not declare,     *)
(* and the model PatientReport, which models.py does not define. The       *)
(* tables are modelled with the columns tasks.py uses (StudyRow; for       *)
(* PatientReport the patient and task_id of the create call of line 460).  *)
(* Every store call of a task may also raise (StoreFault, HandlerFails,    *)
(* PdfFault), so the runs in which such a call raises are runs of the      *)
(* model too.                                                              *)
(***************************************************************************)
EXTENDS Integers, Sequences, FiniteSets, Bags, TLC

VARIABLES
    cache,      \* lock key of a study -> task id stored under it, 0 when absent
    studies,    \* ImagingStudy rows: study id -> row (the domain is the rows that exist)
    images,     \* DicomImage rows, a bag of [study, instance_number, sop_instance_uid]
    tasks,      \* TaskStatus rows: task id -> row (the domain is the rows that exist)
    audit,      \* AuditLog rows, a bag of [action, resource_id, task_id]
    args,       \* arguments of each enqueued job: task id -> [study_id, files]
    msgs,       \* Celery messages in flight: a set of [task, retries]
    exec,       \* the task executions (one per delivered message)
    faults,     \* number of store failures injected so far
    ttlElapsed, \* history: studies whose lock entry expired while its holder ran
    everCompleted, \* history: studies the image task has set to completed
    pdfCache,   \* lock key of a patient -> task id stored under it, 0 when absent
    patients,   \* Patient rows: the ids that exist
    reports,    \* PatientReport rows, a set of [patient, task_id]
    pdfTasks,   \* TaskStatus rows of the report jobs: task id -> row
    pdfAudit,   \* AuditLog rows written by the report task, a bag
    pdfArgs,    \* patient_id argument of each enqueued report job, 0 when unused
    pdfMsgs,    \* Celery messages of the report task in flight: [task, retries]
    pdfExec,    \* the executions of the report task
    purge,      \* the runs of purge_expired_studies
    attempts,   \* history: task id -> number of executions begun
    backfill    \* the runs of calculate_retention_dates

pdfVars == <<pdfCache, patients, reports, pdfTasks, pdfAudit, pdfArgs,
             pdfMsgs, pdfExec>>

vars == <<cache, studies, images, tasks, audit, args, msgs, exec, faults,
          ttlElapsed, everCompleted, pdfVars, purge, attempts, backfill>>

----------------------------------------------------------------------------
(* Bounds of the model *)

MaxExec == 2
MaxLen == 2
MaxFaults == 1
MaxBatchLen == 4
MaxRuns == 2
MaxChainFaults == 4
MaxLongLen == 11

(* Program constants *)

max_retries == 3
MaxErrorChars == 500
ErrorsKept == 3
ErrorMessagesKept == 10
DICOM_PROCESSING_VERSION == "v1.2.0"

StudyIds == {1, 2}
ExecIds == 1..MaxExec
TaskIds == {1, 2}
NoUid == "null"
SopUids == {"X"}
NoTask == 0

(* Dates are day numbers; NoDate is a NULL retention_until. *)
NoDate == 0
Today == 2
Dates == 1..3
RunIds == 1..MaxRuns

StudyStatuses == {"pending", "in_progress", "completed", "failed", "archived"}

(* The calendar. A datetime is [year, month, day, hour]; a date is a day
   number, counted from 1 January of Year0 (day 0). *)
Year0 == 2020
EpochDateTime == [year |-> Year0, month |-> 1, day |-> 1, hour |-> 0]

IsLeap(y) == y % 4 = 0 /\ (y % 100 # 0 \/ y % 400 = 0)

DaysInYear(y) == IF IsLeap(y) THEN 366 ELSE 365

DaysInMonth(y, m) ==
    IF m = 2 THEN (IF IsLeap(y) THEN 29 ELSE 28)
    ELSE IF m \in {4, 6, 9, 11} THEN 30 ELSE 31

RECURSIVE DaysBeforeYear(_)
DaysBeforeYear(y) == IF y <= Year0 THEN 0 ELSE DaysBeforeYear(y - 1) + DaysInYear(y - 1)

RECURSIVE DaysBeforeMonth(_, _)
DaysBeforeMonth(y, m) ==
    IF m <= 1 THEN 0 ELSE DaysBeforeMonth(y, m - 1) + DaysInMonth(y, m - 1)

(* datetime.date(): the time of day is dropped. *)
DateOf(dt) == DaysBeforeYear(dt.year) + DaysBeforeMonth(dt.year, dt.month) + dt.day - 1

(* date + timedelta(days=n) *)
AddDays(date, n) == date + n

(* The same day and month, n calendar years later. *)
AddYears(dt, n) == DateOf([dt EXCEPT !.year = dt.year + n])

(* RETENTION_YEARS and the period the task adds, timedelta(days=365 * 6) *)
RETENTION_YEARS == 6
RetentionDays == 365 * RETENTION_YEARS

SixCalendarYears(dt) == AddYears(dt, RETENTION_YEARS)

(* retention_date = study.study_date.date() + timedelta(days=365 * RETENTION_YEARS) *)
RetentionDate(dt) == AddDays(DateOf(dt), RetentionDays)

(* Study dates used for the rows of the backfill, and a deadline set by hand. *)
StudyDates == {[year |-> 2020, month |-> 1, day |-> 15, hour |-> 0],
               [year |-> 2020, month |-> 3, day |-> 1, hour |-> 23],
               [year |-> 2021, month |-> 12, day |-> 31, hour |-> 12],
               [year |-> 2023, month |-> 2, day |-> 28, hour |-> 9]}
KeptDate == 4000

----------------------------------------------------------------------------
(* Pure helpers *)

Min(a, b) == IF a < b THEN a ELSE b

Take(seq, n) == SubSeq(seq, 1, Min(n, Len(seq)))

RECURSIVE SetMax(_)
SetMax(S) == IF S = {} THEN 0
             ELSE LET x == CHOOSE y \in S : TRUE
                      m == SetMax(S \ {x})
                  IN  IF x > m THEN x ELSE m

BagAdd(B, x) == B (+) SetToBag({x})

(* The kinds of uploaded file: a generic image, a DICOM file carrying a SOP
   Instance UID, and a file whose processing raises before anything is stored. *)
FileKinds == {[kind |-> "gen", uid |-> NoUid], [kind |-> "bad", uid |-> NoUid]}
             \cup {[kind |-> "dcm", uid |-> u] : u \in SopUids}

Batches(n) == UNION {[1..k -> FileKinds] : k \in 1..n}

(* Long batches: j failing files, then two DICOM files with the same SOP
   Instance UID, then generic images. *)
LongBatches(n) ==
    {[i \in 1..k |-> IF i <= j THEN [kind |-> "bad", uid |-> NoUid]
                     ELSE IF i <= j + 2 THEN [kind |-> "dcm", uid |-> "X"]
                     ELSE [kind |-> "gen", uid |-> NoUid]] :
        k \in 1..n, j \in 0..n}

(* f"Error processing {filename}: {str(e)}": the file is named by its
   instance number; the text of an exception outside the item loop has file 0. *)
ErrMsg(file, e) == [file |-> file, exc |-> e]

(* str(exc) of an exception that leaves the try block: its text and length in
   characters; the text of a store error carries the failing statement and is
   longer than the 500 characters kept on the study. *)
ExcChars(e) == IF e = "DatabaseError" THEN 600 ELSE 40

StrExc(e) == [file |-> 0, exc |-> e, chars |-> ExcChars(e)]

SliceKeepsAll(text, n) == text

(* text[:n] *)
Slice(text, n) == [text EXCEPT !.chars = Min(text.chars, n)]

(* A sweep evaluates its query once, when its loop starts; the rows come in
   some order. *)
Orders(S) ==
    {q \in UNION {[1..k -> S] : k \in 0..Cardinality(S)} :
        /\ Len(q) = Cardinality(S)
        /\ \A i, j \in 1..Len(q) : i # j => q[i] # q[j]}

(* Rows and in-memory objects *)

StudyRow(st, ret) ==
    [status |-> st, error_message |-> <<>>, processing_version |-> "",
     retention_until |-> ret, study_date |-> EpochDateTime]

Unbound == [status |-> "unbound", error_message |-> <<>>,
            processing_version |-> "", retention_until |-> NoDate,
            study_date |-> EpochDateTime]

NoResult == [created |-> 0, skipped |-> 0, errors |-> 0, error_messages |-> <<>>,
             set |-> FALSE]

NewTaskStatus(s, n) ==
    [status |-> "processing", total_items |-> n, processed_items |-> 0,
     failed_items |-> 0, error_message |-> <<>>, result |-> NoResult,
     study_id |-> s]

NoTaskStatus == [NewTaskStatus(0, 0) EXCEPT !.status = "unbound"]

PatientIds == {1, 2}
PdfTaskIds == {3, 4}
PdfExecIds == 1..MaxExec

(* Every study of the model belongs to patient 1. *)
PatientOf(s) == 1

NoPdfTask == [status |-> "unbound", processed_items |-> 0, failed_items |-> 0,
              error_message |-> "none", result |-> "none"]

IdlePdfExec ==
    [pc |-> "idle", task |-> NoTask, retries |-> 0, patient_id |-> 0,
     bound |-> FALSE, result |-> "none", existing |-> NoTask, exc |-> "none"]

(* A run of purge_expired_studies: the rows still to purge, the number
   selected, and the summary. *)
IdleRun == [pc |-> "idle", todo |-> <<>>, selected |-> 0, total_purged |-> 0,
            errors |-> <<>>]

(* A run of calculate_retention_dates: the rows still to update and
   updated_count. *)
IdleBackfill == [pc |-> "idle", todo |-> <<>>, updated_count |-> 0]

IdleExec ==
    [pc |-> "idle", task |-> NoTask, retries |-> 0, study_id |-> 0,
     study |-> Unbound, ts |-> NoTaskStatus, idx |-> 0,
     created |-> <<>>, skipped |-> <<>>, errors |-> <<>>,
     result |-> "none", existing |-> NoTask, holder |-> NoTask,
     exc |-> "none", overlapped |-> FALSE]

Files(e) == args[exec[e].task].files
NFiles(e) == Len(Files(e))

(* The positions between a successful cache.add and the cache.delete of the
   finally block. *)
LockedPcs == {"get_or_create", "txn", "not_found", "item", "create",
              "final_study", "final_audit", "final_task",
              "except", "except_task", "retry", "release"}

Started == {e \in ExecIds : exec[e].pc # "idle"}

InLocked(e) == exec[e].pc \in LockedPcs

StudyExists(s) == studies[s].status # "unbound"
TaskExists(t) == tasks[t].status # "unbound"

(* The store's constraints on DicomImage: sop_instance_uid is unique (NULLs are
   not compared) and (study, instance_number) is unique together. *)
SopNotConstrained(row) == TRUE

SopUnique(row) ==
    row.sop_instance_uid = NoUid
    \/ \A r \in BagToSet(images) : r.sop_instance_uid # row.sop_instance_uid

InstanceUnique(row) ==
    \A r \in BagToSet(images) :
        ~(r.study = row.study /\ r.instance_number = row.instance_number)

(* DicomImage.objects.create succeeds: the study row exists (foreign key) and
   both unique constraints admit the row. *)
InsertOk(row) ==
    StudyExists(row.study) /\ SopUnique(row) /\ InstanceUnique(row)

(* task_status.save() writes the whole row; TaskStatus.study is a foreign key,
   so the write is rejected when the study row is gone. *)
SaveOk(ts) == StudyExists(ts.study_id)

(* DicomImage.objects.filter(sop_instance_uid=sop_uid).first() *)
PreCheckBlind(uid) == FALSE

ExistingImage(uid) == \E r \in BagToSet(images) : r.sop_instance_uid = uid

(* Room for one more message, within the bound on executions. *)
PdfLockedPcs == {"get_or_create", "load", "generate", "not_found", "except",
                 "retry", "release"}

PdfStarted == {e \in PdfExecIds : pdfExec[e].pc # "idle"}

PdfInLocked(e) == pdfExec[e].pc \in PdfLockedPcs

(* At most MaxExec executions, of both tasks together, are delivered. *)
Budget ==
    Cardinality(Started) + Cardinality(msgs)
        + Cardinality(PdfStarted) + Cardinality(pdfMsgs) < MaxExec

----------------------------------------------------------------------------
(* The state before any job is enqueued, over the study rows given. *)
InitWith(rows) ==
    /\ cache = [s \in StudyIds |-> NoTask]
    /\ studies = rows
    /\ images = EmptyBag
    /\ tasks = [t \in TaskIds |-> NoTaskStatus]
    /\ audit = EmptyBag
    /\ args = [t \in TaskIds |-> [study_id |-> 0, files |-> <<>>]]
    /\ msgs = {}
    /\ exec = [e \in ExecIds |-> IdleExec]
    /\ faults = 0
    /\ ttlElapsed = {}
    /\ everCompleted = {}
    /\ pdfCache = [p \in PatientIds |-> NoTask]
    /\ patients = PatientIds
    /\ reports = {}
    /\ pdfTasks = [t \in PdfTaskIds |-> NoPdfTask]
    /\ pdfAudit = EmptyBag
    /\ pdfArgs = [t \in PdfTaskIds |-> 0]
    /\ pdfMsgs = {}
    /\ pdfExec = [e \in PdfExecIds |-> IdlePdfExec]
    /\ purge = [r \in RunIds |-> IdleRun]
    /\ attempts = [t \in TaskIds |-> 0]
    /\ backfill = [r \in RunIds |-> IdleBackfill]

(* One study, in any status; an archived study is past its retention date. *)
Init ==
    \E st \in StudyStatuses :
        InitWith([s \in StudyIds |->
                    IF s = 1
                    THEN StudyRow(st, IF st = "archived" THEN Today - 1 ELSE NoDate)
                    ELSE Unbound])

----------------------------------------------------------------------------
(* ImagingStudyViewSet.upload_images: number the files from the study's highest
   instance number + 1 and enqueue one job for the batch. *)
UploadImages(s, t, kinds) ==
    /\ StudyExists(s)
    /\ Budget
    /\  /\ args[t].study_id = 0
        /\ \A u \in TaskIds : u < t => args[u].study_id # 0
        /\ LET max_instance ==
                   SetMax({r.instance_number : r \in {x \in BagToSet(images) : x.study = s}})
               file_data_list ==
                   [i \in 1..Len(kinds) |->
                       [instance_number |-> max_instance + i,
                        kind |-> kinds[i].kind, uid |-> kinds[i].uid]]
           IN  /\ args' = [args EXCEPT ![t] = [study_id |-> s, files |-> file_data_list]]
               /\ msgs' = msgs \cup {[task |-> t, retries |-> 0]}
    /\ UNCHANGED <<cache, studies, images, tasks, audit, exec, faults,
                   ttlElapsed, everCompleted>>
    /\ UNCHANGED pdfVars
    /\ UNCHANGED <<purge, attempts, backfill>>

(* At-least-once delivery: the broker delivers again a message that an
   execution has already taken. *)
Redeliver(e) ==
    /\ exec[e].pc # "idle"
    /\ Budget
    /\ [task |-> exec[e].task, retries |-> exec[e].retries] \notin msgs
    /\ msgs' = msgs \cup {[task |-> exec[e].task, retries |-> exec[e].retries]}
    /\ UNCHANGED <<cache, studies, images, tasks, audit, args, exec, faults,
                   ttlElapsed, everCompleted>>
    /\ UNCHANGED pdfVars
    /\ UNCHANGED <<purge, attempts, backfill>>

(* cache.add(lock_key, task_id, LOCK_TIMEOUT) stores the value, and returns
   True, only when the key is absent. *)
CacheAddOverwrites(s) == TRUE

CacheAdd(s) == cache[s] = NoTask

(* A worker takes message m and runs the task up to cache.add(lock_key, task_id,
   LOCK_TIMEOUT): the add stores the task id only when the key is absent. *)
Begin(e, m) ==
    /\ exec[e].pc = "idle"
    /\ \A o \in ExecIds : o < e => exec[o].pc # "idle"
    /\ m \in msgs
    /\ LET s == args[m.task].study_id
           added == CacheAdd(s)
       IN  /\ cache' = IF added THEN [cache EXCEPT ![s] = m.task] ELSE cache
           /\ exec' = [exec EXCEPT ![e] =
                  [IdleExec EXCEPT
                      !.pc = IF added THEN "get_or_create" ELSE "peek",
                      !.task = m.task, !.retries = m.retries, !.study_id = s,
                      !.holder = cache[s],
                      !.overlapped = \E o \in ExecIds :
                          /\ o # e /\ InLocked(o)
                          /\ exec[o].task = m.task /\ exec[o].retries = m.retries]]
    /\ msgs' = msgs \ {m}
    /\ UNCHANGED <<studies, images, tasks, audit, args, faults,
                   ttlElapsed, everCompleted>>
    /\ UNCHANGED pdfVars
    /\ attempts' = [attempts EXCEPT ![m.task] = attempts[m.task] + 1]
    /\ UNCHANGED <<purge, backfill>>

SkipReleasesLock(e) ==
    /\ exec[e].pc = "peek"
    /\ exec' = [exec EXCEPT ![e].pc = "done", ![e].result = "skipped",
                            ![e].existing = cache[exec[e].study_id]]
    /\ cache' = [cache EXCEPT ![exec[e].study_id] = NoTask]
    /\ UNCHANGED <<studies, images, tasks, audit, args, msgs, faults,
                   ttlElapsed, everCompleted>>
    /\ UNCHANGED pdfVars
    /\ UNCHANGED <<purge, attempts, backfill>>

(* The add failed: existing_lock = cache.get(lock_key), then return skipped. *)
Peek(e) ==
    /\ exec[e].pc = "peek"
    /\ exec' = [exec EXCEPT ![e].pc = "done", ![e].result = "skipped",
                            ![e].existing = cache[exec[e].study_id]]
    /\ UNCHANGED <<cache, studies, images, tasks, audit, args, msgs, faults,
                   ttlElapsed, everCompleted>>
    /\ UNCHANGED pdfVars
    /\ UNCHANGED <<purge, attempts, backfill>>

(* The entry reaches its TTL (LOCK_TIMEOUT) and the cache drops it. *)
Expire(s) ==
    /\ cache[s] # NoTask
    /\ cache' = [cache EXCEPT ![s] = NoTask]
    /\ ttlElapsed' = ttlElapsed \cup {s}
    /\ UNCHANGED <<studies, images, tasks, audit, args, msgs, exec, faults,
                   everCompleted>>
    /\ UNCHANGED pdfVars
    /\ UNCHANGED <<purge, attempts, backfill>>

(* A call to the store raises (store unavailable): the exception leaves the
   try block for the handler of line 339. *)
FaultPcs == {"get_or_create", "txn", "final_study", "final_audit", "final_task"}

StoreFaultWithin(e, n) ==
    /\ exec[e].pc \in FaultPcs
    /\ faults < n
    /\ faults' = faults + 1
    /\ exec' = [exec EXCEPT ![e].pc = "except", ![e].exc = "DatabaseError"]
    /\ UNCHANGED <<cache, studies, images, tasks, audit, args, msgs,
                   ttlElapsed, everCompleted>>
    /\ UNCHANGED pdfVars
    /\ UNCHANGED <<purge, attempts, backfill>>

StoreFault(e) == StoreFaultWithin(e, MaxFaults)

(* TaskStatus.objects.get_or_create(task_id=...), and for an existing row the
   update to processing. *)
GetOrCreate(e) ==
    /\ exec[e].pc = "get_or_create"
    /\ LET t == exec[e].task
           s == exec[e].study_id
           n == NFiles(e)
           ts == IF TaskExists(t)
                 THEN [tasks[t] EXCEPT !.status = "processing", !.total_items = n]
                 ELSE NewTaskStatus(s, n)
       IN  IF SaveOk(ts)
           THEN /\ tasks' = [tasks EXCEPT ![t] = ts]
                /\ exec' = [exec EXCEPT ![e].pc = "txn", ![e].ts = ts]
           ELSE /\ tasks' = tasks
                /\ exec' = [exec EXCEPT ![e].pc = "except",
                               ![e].exc = "IntegrityError",
                               ![e].ts = IF TaskExists(t) THEN ts ELSE NoTaskStatus]
    /\ UNCHANGED <<cache, studies, images, audit, args, msgs, faults,
                   ttlElapsed, everCompleted>>
    /\ UNCHANGED pdfVars
    /\ UNCHANGED <<purge, attempts, backfill>>

AuditRow(action, s, t) == [action |-> action, resource_id |-> s, task_id |-> t]

GuardNeverTrips(s) == FALSE

(* if study.status == 'completed' (line 111) *)
AlreadyCompleted(s) == studies[s].status = "completed"

(* with transaction.atomic(): select_for_update().get(id=study_id), the
   completed guard, the move to in_progress and the process audit record. *)
LockedStudyTxn(e) ==
    /\ exec[e].pc = "txn"
    /\ LET s == exec[e].study_id
           row == [studies[s] EXCEPT !.status = "in_progress", !.error_message = <<>>]
       IN  IF ~StudyExists(s)
           THEN /\ exec' = [exec EXCEPT ![e].pc = "not_found"]
                /\ UNCHANGED <<studies, audit>>
           ELSE IF AlreadyCompleted(s)
           THEN /\ exec' = [exec EXCEPT ![e].pc = "release",
                               ![e].result = "already_completed"]
                /\ UNCHANGED <<studies, audit>>
           ELSE /\ studies' = [studies EXCEPT ![s] = row]
                /\ audit' = BagAdd(audit, AuditRow("process", s, exec[e].task))
                /\ exec' = [exec EXCEPT ![e].study = row, ![e].idx = 1,
                               ![e].pc = IF NFiles(e) = 0 THEN "final_study" ELSE "item"]
    /\ UNCHANGED <<cache, images, tasks, args, msgs, faults,
                   ttlElapsed, everCompleted>>
    /\ UNCHANGED pdfVars
    /\ UNCHANGED <<purge, attempts, backfill>>

(* except ImagingStudy.DoesNotExist: mark the job failed, audit, return. *)
StudyNotFound(e) ==
    /\ exec[e].pc = "not_found"
    /\ LET ts == [exec[e].ts EXCEPT !.status = "failed",
                                   !.error_message = <<ErrMsg(0, "Study not found")>>]
       IN  IF SaveOk(ts)
           THEN /\ tasks' = [tasks EXCEPT ![exec[e].task] = ts]
                /\ audit' = BagAdd(audit, AuditRow("failed", exec[e].study_id, exec[e].task))
                /\ exec' = [exec EXCEPT ![e].pc = "release", ![e].ts = ts,
                               ![e].result = "not_found"]
           ELSE /\ exec' = [exec EXCEPT ![e].pc = "except", ![e].ts = ts,
                               ![e].exc = "IntegrityError"]
                /\ UNCHANGED <<tasks, audit>>
    /\ UNCHANGED <<cache, studies, images, args, msgs, faults,
                   ttlElapsed, everCompleted>>
    /\ UNCHANGED pdfVars
    /\ UNCHANGED <<purge, attempts, backfill>>

AdvanceStopsAfterError(x, n) ==
    [x EXCEPT !.idx = x.idx + 1,
              !.pc = IF x.idx + 1 > n \/ x.errors # <<>> THEN "final_study" ELSE "item"]

(* The loop's next position: the following file, or the final update. *)
Advance(x, n) ==
    [x EXCEPT !.idx = x.idx + 1,
              !.pc = IF x.idx + 1 > n THEN "final_study" ELSE "item"]

(* except Exception as e (line 270): record the error message, count the failed
   item in the in-memory task_status. *)
ItemFailed(x, file, why) ==
    [x EXCEPT !.errors = Append(x.errors, ErrMsg(file, why)),
              !.ts.failed_items = x.ts.failed_items + 1]

(* One pass of the loop body up to the point where a row would be created:
   the progress save, the format probe and, for a DICOM file, the duplicate
   pre-check on the SOP Instance UID. *)
ProcessItem(e) ==
    /\ exec[e].pc = "item"
    /\ LET x == [exec[e] EXCEPT !.ts.processed_items = exec[e].idx - 1]
           f == Files(e)[exec[e].idx]
           n == NFiles(e)
           t == exec[e].task
           failed == ItemFailed(x, f.instance_number,
                                IF SaveOk(x.ts) THEN "ProcessingError" ELSE "IntegrityError")
       IN  IF ~SaveOk(x.ts)
           THEN \* the progress save raises, and so does the save of the handler
                /\ exec' = [exec EXCEPT ![e] =
                              [failed EXCEPT !.pc = "except", !.exc = "IntegrityError"]]
                /\ tasks' = tasks
           ELSE IF f.kind = "bad"
           THEN /\ exec' = [exec EXCEPT ![e] = Advance(failed, n)]
                /\ tasks' = [tasks EXCEPT ![t] = failed.ts]
           ELSE IF f.kind = "dcm" /\ ExistingImage(f.uid)
           THEN /\ exec' = [exec EXCEPT ![e] =
                              Advance([x EXCEPT !.skipped = Append(x.skipped, f.instance_number)], n)]
                /\ tasks' = [tasks EXCEPT ![t] = x.ts]
           ELSE /\ exec' = [exec EXCEPT ![e] = [x EXCEPT !.pc = "create"]]
                /\ tasks' = [tasks EXCEPT ![t] = x.ts]
    /\ UNCHANGED <<cache, studies, images, audit, args, msgs, faults,
                   ttlElapsed, everCompleted>>
    /\ UNCHANGED pdfVars
    /\ UNCHANGED <<purge, attempts, backfill>>

(* DicomImage.objects.create of lines 237 and 254: the row is stored,
   or the store rejects it and the item is recorded as an error. *)
CreateImage(e) ==
    /\ exec[e].pc = "create"
    /\ LET x == exec[e]
           f == Files(e)[x.idx]
           n == NFiles(e)
           t == x.task
           row == [study |-> x.study_id, instance_number |-> f.instance_number,
                   sop_instance_uid |-> f.uid]
           failed == ItemFailed(x, f.instance_number, "IntegrityError")
       IN  IF InsertOk(row)
           THEN /\ images' = BagAdd(images, row)
                /\ exec' = [exec EXCEPT ![e] =
                              Advance([x EXCEPT !.created = Append(x.created, f.instance_number)], n)]
                /\ tasks' = tasks
           ELSE IF SaveOk(failed.ts)
           THEN /\ images' = images
                /\ exec' = [exec EXCEPT ![e] = Advance(failed, n)]
                /\ tasks' = [tasks EXCEPT ![t] = failed.ts]
           ELSE /\ images' = images
                /\ exec' = [exec EXCEPT ![e] =
                              [failed EXCEPT !.pc = "except", !.exc = "IntegrityError"]]
                /\ tasks' = tasks
    /\ UNCHANGED <<cache, studies, audit, args, msgs, faults,
                   ttlElapsed, everCompleted>>
    /\ UNCHANGED pdfVars
    /\ UNCHANGED <<purge, attempts, backfill>>

FinalStudyKeepsAllErrors(x, n) ==
    IF x.errors # <<>>
    THEN [x EXCEPT !.ts.processed_items = n,
                   !.study.status = "failed",
                   !.study.error_message = x.errors,
                   !.ts.status = "failed",
                   !.ts.error_message = Take(x.errors, 5),
                   !.pc = "final_audit"]
    ELSE [x EXCEPT !.ts.processed_items = n,
                   !.study.status = "completed",
                   !.study.processing_version = DICOM_PROCESSING_VERSION,
                   !.ts.status = "completed",
                   !.pc = "final_audit"]

(* Lines 278-306: the final status of the study, saved from the in-memory
   study object (every column of the row is written), and of the job. *)
FinalStudy(x, n) ==
    IF x.errors # <<>>
    THEN [x EXCEPT !.ts.processed_items = n,
                   !.study.status = "failed",
                   !.study.error_message = Take(x.errors, ErrorsKept),
                   !.ts.status = "failed",
                   !.ts.error_message = Take(x.errors, 5),
                   !.pc = "final_audit"]
    ELSE [x EXCEPT !.ts.processed_items = n,
                   !.study.status = "completed",
                   !.study.processing_version = DICOM_PROCESSING_VERSION,
                   !.ts.status = "completed",
                   !.pc = "final_audit"]

SaveFinalStudy(e) ==
    /\ exec[e].pc = "final_study"
    /\ LET x == FinalStudy(exec[e], NFiles(e))
       IN  /\ exec' = [exec EXCEPT ![e] = x]
           /\ studies' = [studies EXCEPT ![x.study_id] = x.study]
           /\ everCompleted' = IF x.study.status = "completed"
                               THEN everCompleted \cup {x.study_id}
                               ELSE everCompleted
    /\ UNCHANGED <<cache, images, tasks, audit, args, msgs, faults, ttlElapsed>>
    /\ UNCHANGED pdfVars
    /\ UNCHANGED <<purge, attempts, backfill>>

FinalAuditAlwaysUpdate(e) ==
    /\ exec[e].pc = "final_audit"
    /\ audit' = BagAdd(audit, AuditRow("update", exec[e].study_id, exec[e].task))
    /\ exec' = [exec EXCEPT ![e].pc = "final_task"]
    /\ UNCHANGED <<cache, studies, images, tasks, args, msgs, faults,
                   ttlElapsed, everCompleted>>
    /\ UNCHANGED pdfVars
    /\ UNCHANGED <<purge, attempts, backfill>>

(* The failed / update audit record of lines 290 and 309. *)
FinalAudit(e) ==
    /\ exec[e].pc = "final_audit"
    /\ audit' = BagAdd(audit,
                   AuditRow(IF exec[e].errors # <<>> THEN "failed" ELSE "update",
                            exec[e].study_id, exec[e].task))
    /\ exec' = [exec EXCEPT ![e].pc = "final_task"]
    /\ UNCHANGED <<cache, studies, images, tasks, args, msgs, faults,
                   ttlElapsed, everCompleted>>
    /\ UNCHANGED pdfVars
    /\ UNCHANGED <<purge, attempts, backfill>>

ResultKeepsAllErrors(x) ==
    [created |-> Len(x.created), skipped |-> Len(x.skipped),
     errors |-> Len(x.errors), error_messages |-> x.errors,
     set |-> TRUE]

(* task_status.result of lines 322-329 *)
ResultOf(x) ==
    [created |-> Len(x.created), skipped |-> Len(x.skipped),
     errors |-> Len(x.errors), error_messages |-> Take(x.errors, ErrorMessagesKept),
     set |-> TRUE]

(* Lines 322-337: store the result on the job and return. *)
FinalTask(e) ==
    /\ exec[e].pc = "final_task"
    /\ LET x == [exec[e] EXCEPT !.ts.result = ResultOf(exec[e])]
       IN  IF SaveOk(x.ts)
           THEN /\ tasks' = [tasks EXCEPT ![x.task] = x.ts]
                /\ exec' = [exec EXCEPT ![e] =
                              [x EXCEPT !.pc = "release", !.result = "batch"]]
           ELSE /\ tasks' = tasks
                /\ exec' = [exec EXCEPT ![e] =
                              [x EXCEPT !.pc = "except", !.exc = "IntegrityError"]]
    /\ UNCHANGED <<cache, studies, images, audit, args, msgs, faults,
                   ttlElapsed, everCompleted>>
    /\ UNCHANGED pdfVars
    /\ UNCHANGED <<purge, attempts, backfill>>

(* except Exception as exc (line 339):
   ImagingStudy.objects.filter(id=study_id).update(status='failed', ...) *)
MarkStudyFailed(e) ==
    /\ exec[e].pc = "except"
    /\ LET s == exec[e].study_id
       IN  studies' = IF StudyExists(s)
                      THEN [studies EXCEPT ![s].status = "failed",
                                           ![s].error_message =
                                               <<Slice(StrExc(exec[e].exc), MaxErrorChars)>>]
                      ELSE studies
    /\ exec' = [exec EXCEPT ![e].pc = "except_task"]
    /\ UNCHANGED <<cache, images, tasks, audit, args, msgs, faults,
                   ttlElapsed, everCompleted>>
    /\ UNCHANGED pdfVars
    /\ UNCHANGED <<purge, attempts, backfill>>

(* Lines 346-349: if task_status is bound, save it as failed; a failure of the
   save is swallowed by the inner handler. *)
MarkTaskFailed(e) ==
    /\ exec[e].pc = "except_task"
    /\ LET x == exec[e]
           ts == [x.ts EXCEPT !.status = "failed",
                              !.error_message = <<StrExc(x.exc)>>]
       IN  IF x.ts.status = "unbound"
           THEN /\ exec' = [exec EXCEPT ![e].pc = "retry"]
                /\ tasks' = tasks
           ELSE /\ exec' = [exec EXCEPT ![e].pc = "retry", ![e].ts = ts]
                /\ tasks' = IF SaveOk(ts) THEN [tasks EXCEPT ![x.task] = ts] ELSE tasks
    /\ UNCHANGED <<cache, studies, images, audit, args, msgs, faults,
                   ttlElapsed, everCompleted>>
    /\ UNCHANGED pdfVars
    /\ UNCHANGED <<purge, attempts, backfill>>

(* Lines 350-351: a store call of the handler itself raises; the inner
   handler logs it and the task goes on to retry. *)
HandlerFails(e) ==
    /\ \/ exec[e].pc = "except"
       \/ exec[e].pc = "except_task" /\ exec[e].ts.status # "unbound"
    /\ exec' = [exec EXCEPT ![e].pc = "retry"]
    /\ UNCHANGED <<cache, studies, images, tasks, audit, args, msgs, faults,
                   ttlElapsed, everCompleted>>
    /\ UNCHANGED pdfVars
    /\ UNCHANGED <<purge, attempts, backfill>>

RetryIgnoresLimit(e) ==
    /\ exec[e].pc = "retry"
    /\ msgs' = IF exec[e].retries <= max_retries /\ Budget
               THEN msgs \cup {[task |-> exec[e].task, retries |-> exec[e].retries + 1]}
               ELSE msgs
    /\ exec' = [exec EXCEPT ![e].pc = "release", ![e].result = "raised"]
    /\ UNCHANGED <<cache, studies, images, tasks, audit, args, faults,
                   ttlElapsed, everCompleted>>
    /\ UNCHANGED pdfVars
    /\ UNCHANGED <<purge, attempts, backfill>>

(* raise self.retry(exc=exc): below max_retries the task is sent again with
   retries + 1; at max_retries the exception is raised and nothing is sent. *)
Retry(e) ==
    /\ exec[e].pc = "retry"
    /\ msgs' = IF exec[e].retries < max_retries /\ Budget
               THEN msgs \cup {[task |-> exec[e].task, retries |-> exec[e].retries + 1]}
               ELSE msgs
    /\ exec' = [exec EXCEPT ![e].pc = "release", ![e].result = "raised"]
    /\ UNCHANGED <<cache, studies, images, tasks, audit, args, faults,
                   ttlElapsed, everCompleted>>
    /\ UNCHANGED pdfVars
    /\ UNCHANGED <<purge, attempts, backfill>>

ReleaseKeepsEntry(e) ==
    /\ exec[e].pc = "release"
    /\ exec' = [exec EXCEPT ![e].pc = "done"]
    /\ UNCHANGED <<cache, studies, images, tasks, audit, args, msgs, faults,
                   ttlElapsed, everCompleted>>
    /\ UNCHANGED pdfVars
    /\ UNCHANGED <<purge, attempts, backfill>>

(* finally: cache.delete(lock_key) *)
Release(e) ==
    /\ exec[e].pc = "release"
    /\ cache' = [cache EXCEPT ![exec[e].study_id] = NoTask]
    /\ exec' = [exec EXCEPT ![e].pc = "done"]
    /\ UNCHANGED <<studies, images, tasks, audit, args, msgs, faults,
                   ttlElapsed, everCompleted>>
    /\ UNCHANGED pdfVars
    /\ UNCHANGED <<purge, attempts, backfill>>

(* calculate_retention_dates *)

(* filter(retention_until__isnull=True), evaluated when the loop starts; each
   row object holds the study_date read at that moment. *)
BackfillSelect(r) ==
    /\ backfill[r].pc = "idle"
    /\ \A o \in RunIds : o < r => backfill[o].pc # "idle"
    /\ \E q \in Orders({s \in StudyIds :
                           StudyExists(s) /\ studies[s].retention_until = NoDate}) :
          backfill' = [backfill EXCEPT ![r] =
              [IdleBackfill EXCEPT
                  !.pc = "loop",
                  !.todo = [i \in 1..Len(q) |->
                               [id |-> q[i], study_date |-> studies[q[i]].study_date]]]]
    /\ UNCHANGED <<cache, studies, images, tasks, audit, args, msgs, exec,
                   faults, ttlElapsed, everCompleted>>
    /\ UNCHANGED pdfVars
    /\ UNCHANGED <<purge, attempts>>

SaveSixCalendarYears(r) ==
    /\ backfill[r].pc = "loop"
    /\ backfill[r].todo # <<>>
    /\ LET row == Head(backfill[r].todo)
       IN  /\ StudyExists(row.id)
           /\ studies' = [studies EXCEPT ![row.id].retention_until =
                                             SixCalendarYears(row.study_date)]
    /\ backfill' = [backfill EXCEPT ![r].todo = Tail(backfill[r].todo),
                                    ![r].updated_count = backfill[r].updated_count + 1]
    /\ UNCHANGED <<cache, images, tasks, audit, args, msgs, exec,
                   faults, ttlElapsed, everCompleted>>
    /\ UNCHANGED pdfVars
    /\ UNCHANGED <<purge, attempts>>

(* study.retention_until = retention_date;
   study.save(update_fields=['retention_until']): only that column is written. *)
BackfillSave(r) ==
    /\ backfill[r].pc = "loop"
    /\ backfill[r].todo # <<>>
    /\ LET row == Head(backfill[r].todo)
       IN  /\ StudyExists(row.id)
           /\ studies' = [studies EXCEPT ![row.id].retention_until =
                                             RetentionDate(row.study_date)]
    /\ backfill' = [backfill EXCEPT ![r].todo = Tail(backfill[r].todo),
                                    ![r].updated_count = backfill[r].updated_count + 1]
    /\ UNCHANGED <<cache, images, tasks, audit, args, msgs, exec,
                   faults, ttlElapsed, everCompleted>>
    /\ UNCHANGED pdfVars
    /\ UNCHANGED <<purge, attempts>>

(* The save raises (the store fails, or the row is gone and no row is
   affected): nothing catches it and the run ends with the exception. *)
BackfillFails(r) ==
    /\ backfill[r].pc = "loop"
    /\ backfill[r].todo # <<>>
    /\ \/ ~StudyExists(Head(backfill[r].todo).id) /\ faults' = faults
       \/ faults < MaxFaults /\ faults' = faults + 1
    /\ backfill' = [backfill EXCEPT ![r].pc = "raised"]
    /\ UNCHANGED <<cache, studies, images, tasks, audit, args, msgs, exec,
                   ttlElapsed, everCompleted>>
    /\ UNCHANGED pdfVars
    /\ UNCHANGED <<purge, attempts>>

(* return {'updated_count': ..., 'retention_years': 6} *)
BackfillReturn(r) ==
    /\ backfill[r].pc = "loop"
    /\ backfill[r].todo = <<>>
    /\ backfill' = [backfill EXCEPT ![r].pc = "done"]
    /\ UNCHANGED <<cache, studies, images, tasks, audit, args, msgs, exec,
                   faults, ttlElapsed, everCompleted>>
    /\ UNCHANGED pdfVars
    /\ UNCHANGED <<purge, attempts>>

(* The worker that ran an execution to its end takes the next message. *)
Recycle(e) ==
    /\ exec[e].pc = "done"
    /\ exec' = [exec EXCEPT ![e] = IdleExec]
    /\ UNCHANGED <<cache, studies, images, tasks, audit, args, msgs, faults,
                   ttlElapsed, everCompleted>>
    /\ UNCHANGED pdfVars
    /\ UNCHANGED <<purge, attempts, backfill>>

(* purge_expired_studies *)

ExpiredOrDueToday(s) ==
    /\ studies[s].status = "archived"
    /\ studies[s].retention_until # NoDate
    /\ studies[s].retention_until <= Today

(* filter(status='archived', retention_until__lt=today): a NULL deadline never
   compares less. *)
Expired(s) ==
    /\ studies[s].status = "archived"
    /\ studies[s].retention_until # NoDate
    /\ studies[s].retention_until < Today

(* study.delete(): the study row goes, and by on_delete CASCADE its DicomImage
   and TaskStatus rows; nothing happens when the row is already gone. *)
ImagesAfterDelete(s) == [r \in {x \in DOMAIN images : x.study # s} |-> images[r]]

TasksAfterDelete(s) ==
    [t \in TaskIds |-> IF tasks[t].study_id = s THEN NoTaskStatus ELSE tasks[t]]

PurgeSelect(r) ==
    /\ purge[r].pc = "idle"
    /\ \A o \in RunIds : o < r => purge[o].pc # "idle"
    /\ \E q \in Orders({s \in StudyIds : Expired(s)}) :
          purge' = [purge EXCEPT ![r] = [IdleRun EXCEPT !.pc = "loop", !.todo = q,
                                                        !.selected = Len(q)]]
    /\ UNCHANGED <<cache, studies, images, tasks, audit, args, msgs, exec,
                   faults, ttlElapsed, everCompleted>>
    /\ UNCHANGED pdfVars
    /\ UNCHANGED <<attempts, backfill>>

PurgeSkipsAudit(r) ==
    /\ purge[r].pc = "loop"
    /\ purge[r].todo # <<>>
    /\ purge' = [purge EXCEPT ![r].pc = "delete"]
    /\ UNCHANGED <<cache, studies, images, tasks, audit, args, msgs, exec,
                   faults, ttlElapsed, everCompleted>>
    /\ UNCHANGED pdfVars
    /\ UNCHANGED <<attempts, backfill>>

(* AuditLog.objects.create(action='delete', ...), before the deletion *)
PurgeAudit(r) ==
    /\ purge[r].pc = "loop"
    /\ purge[r].todo # <<>>
    /\ audit' = BagAdd(audit, AuditRow("delete", Head(purge[r].todo), NoTask))
    /\ purge' = [purge EXCEPT ![r].pc = "delete"]
    /\ UNCHANGED <<cache, studies, images, tasks, args, msgs, exec,
                   faults, ttlElapsed, everCompleted>>
    /\ UNCHANGED pdfVars
    /\ UNCHANGED <<attempts, backfill>>

DeleteWithoutCounting(r) ==
    /\ purge[r].pc = "delete"
    /\ LET s == Head(purge[r].todo)
       IN  /\ studies' = [studies EXCEPT ![s] = Unbound]
           /\ images' = ImagesAfterDelete(s)
           /\ tasks' = TasksAfterDelete(s)
    /\ purge' = [purge EXCEPT ![r].pc = "loop", ![r].todo = Tail(purge[r].todo)]
    /\ UNCHANGED <<cache, audit, args, msgs, exec, faults, ttlElapsed,
                   everCompleted>>
    /\ UNCHANGED pdfVars
    /\ UNCHANGED <<attempts, backfill>>

(* study.delete() and the update of the summary *)
PurgeDelete(r) ==
    /\ purge[r].pc = "delete"
    /\ LET s == Head(purge[r].todo)
       IN  /\ studies' = [studies EXCEPT ![s] = Unbound]
           /\ images' = ImagesAfterDelete(s)
           /\ tasks' = TasksAfterDelete(s)
    /\ purge' = [purge EXCEPT ![r].pc = "loop", ![r].todo = Tail(purge[r].todo),
                              ![r].total_purged = purge[r].total_purged + 1]
    /\ UNCHANGED <<cache, audit, args, msgs, exec, faults, ttlElapsed,
                   everCompleted>>
    /\ UNCHANGED pdfVars
    /\ UNCHANGED <<attempts, backfill>>

(* except Exception as e: the audit write or the delete raises; the error is
   appended to the summary and the loop goes on with the next study. *)
PurgeFails(r) ==
    /\ \/ purge[r].pc = "loop" /\ purge[r].todo # <<>>
       \/ purge[r].pc = "delete"
    /\ faults < MaxFaults
    /\ faults' = faults + 1
    /\ purge' = [purge EXCEPT ![r].pc = "loop", ![r].todo = Tail(purge[r].todo),
                              ![r].errors = Append(purge[r].errors, Head(purge[r].todo))]
    /\ UNCHANGED <<cache, studies, images, tasks, audit, args, msgs, exec,
                   ttlElapsed, everCompleted>>
    /\ UNCHANGED pdfVars
    /\ UNCHANGED <<attempts, backfill>>

(* return purge_summary *)
PurgeReturn(r) ==
    /\ purge[r].pc = "loop"
    /\ purge[r].todo = <<>>
    /\ purge' = [purge EXCEPT ![r].pc = "done"]
    /\ UNCHANGED <<cache, studies, images, tasks, audit, args, msgs, exec,
                   faults, ttlElapsed, everCompleted>>
    /\ UNCHANGED pdfVars
    /\ UNCHANGED <<attempts, backfill>>

(* One study purged by a run that no other step interleaves with: the delete
   audit record, then study.delete(). *)
PurgeStudy(s) ==
    /\ studies[s].status = "archived"
    /\ Expired(s)
    /\ audit' = BagAdd(audit, AuditRow("delete", s, NoTask))
    /\ studies' = [studies EXCEPT ![s] = Unbound]
    /\ images' = ImagesAfterDelete(s)
    /\ tasks' = TasksAfterDelete(s)
    /\ UNCHANGED <<cache, args, msgs, exec, faults, ttlElapsed, everCompleted>>
    /\ UNCHANGED pdfVars
    /\ UNCHANGED <<purge, attempts, backfill>>

----------------------------------------------------------------------------
(* generate_patient_report_async *)

(* PatientViewSet.generate_report: get_object() answers 404 for a patient that
   does not exist, otherwise one job is enqueued for the patient. *)
GenerateReport(p, t) ==
    /\ p \in patients
    /\ Budget
    /\  /\ pdfArgs[t] = 0
        /\ \A u \in PdfTaskIds : u < t => pdfArgs[u] # 0
    /\ pdfArgs' = [pdfArgs EXCEPT ![t] = p]
    /\ pdfMsgs' = pdfMsgs \cup {[task |-> t, retries |-> 0]}
    /\ UNCHANGED <<pdfCache, patients, reports, pdfTasks, pdfAudit, pdfExec>>
    /\ UNCHANGED <<cache, studies, images, tasks, audit, args, msgs, exec,
                   faults, ttlElapsed, everCompleted>>
    /\ UNCHANGED <<purge, attempts, backfill>>

(* PatientViewSet.destroy, for a patient without studies and without
   reports: the patient row is deleted. *)
DeletePatient(p) ==
    /\ p \in patients
    /\ \A s \in StudyIds : StudyExists(s) => PatientOf(s) # p
    /\ \A r \in reports : r.patient # p
    /\ patients' = patients \ {p}
    /\ UNCHANGED <<pdfCache, reports, pdfTasks, pdfAudit, pdfArgs, pdfMsgs, pdfExec>>
    /\ UNCHANGED <<cache, studies, images, tasks, audit, args, msgs, exec,
                   faults, ttlElapsed, everCompleted>>
    /\ UNCHANGED <<purge, attempts, backfill>>

(* A worker takes a message and runs cache.add(lock_key, task_id,
   LOCK_TIMEOUT) on pdf-generation-<patient_id>. *)
PdfBegin(e, m) ==
    /\ pdfExec[e].pc = "idle"
    /\ \A o \in PdfExecIds : o < e => pdfExec[o].pc # "idle"
    /\ pdfMsgs' = pdfMsgs \ {m}
    /\ LET p == pdfArgs[m.task]
           x == [IdlePdfExec EXCEPT !.task = m.task, !.retries = m.retries,
                                    !.patient_id = p]
       IN  IF pdfCache[p] = NoTask
           THEN /\ pdfCache' = [pdfCache EXCEPT ![p] = m.task]
                /\ pdfExec' = [pdfExec EXCEPT ![e] = [x EXCEPT !.pc = "get_or_create"]]
           ELSE /\ pdfCache' = pdfCache
                /\ pdfExec' = [pdfExec EXCEPT ![e] = [x EXCEPT !.pc = "peek"]]
    /\ UNCHANGED <<patients, reports, pdfTasks, pdfAudit, pdfArgs>>
    /\ UNCHANGED <<cache, studies, images, tasks, audit, args, msgs, exec,
                   faults, ttlElapsed, everCompleted>>
    /\ UNCHANGED <<purge, attempts, backfill>>

(* The add failed: existing_lock = cache.get(lock_key), then return skipped. *)
PdfPeek(e) ==
    /\ pdfExec[e].pc = "peek"
    /\ pdfExec' = [pdfExec EXCEPT ![e].pc = "done", ![e].result = "skipped",
                                  ![e].existing = pdfCache[pdfExec[e].patient_id]]
    /\ UNCHANGED <<pdfCache, patients, reports, pdfTasks, pdfAudit, pdfArgs,
                   pdfMsgs>>
    /\ UNCHANGED <<cache, studies, images, tasks, audit, args, msgs, exec,
                   faults, ttlElapsed, everCompleted>>
    /\ UNCHANGED <<purge, attempts, backfill>>

(* LOCK_TIMEOUT elapses while the holder of the key is still running. *)
PdfExpire(p) ==
    /\ pdfCache[p] # NoTask
    /\ \E e \in PdfExecIds : PdfInLocked(e) /\ pdfExec[e].patient_id = p
    /\ pdfCache' = [pdfCache EXCEPT ![p] = NoTask]
    /\ UNCHANGED <<patients, reports, pdfTasks, pdfAudit, pdfArgs, pdfMsgs,
                   pdfExec>>
    /\ UNCHANGED <<cache, studies, images, tasks, audit, args, msgs, exec,
                   faults, ttlElapsed, everCompleted>>
    /\ UNCHANGED <<purge, attempts, backfill>>

(* The store, the PDF generator or the file storage raises: the exception
   leaves the try block for the handler of line 523. At get_or_create the name
   task_status is not bound yet. *)
PdfFault(e) ==
    /\ pdfExec[e].pc \in {"get_or_create", "generate"}
    /\ faults < MaxFaults
    /\ faults' = faults + 1
    /\ pdfExec' = [pdfExec EXCEPT ![e].pc = "except", ![e].exc = "Exception"]
    /\ UNCHANGED <<pdfCache, patients, reports, pdfTasks, pdfAudit, pdfArgs,
                   pdfMsgs>>
    /\ UNCHANGED <<cache, studies, images, tasks, audit, args, msgs, exec,
                   ttlElapsed, everCompleted>>
    /\ UNCHANGED <<purge, attempts, backfill>>

(* TaskStatus.objects.get_or_create(task_id=...), and for an existing row the
   save of status processing. *)
PdfGetOrCreate(e) ==
    /\ pdfExec[e].pc = "get_or_create"
    /\ LET t == pdfExec[e].task
       IN  pdfTasks' = [pdfTasks EXCEPT ![t] =
                          IF pdfTasks[t].status = "unbound"
                          THEN [NoPdfTask EXCEPT !.status = "processing"]
                          ELSE [pdfTasks[t] EXCEPT !.status = "processing"]]
    /\ pdfExec' = [pdfExec EXCEPT ![e].pc = "load", ![e].bound = TRUE]
    /\ UNCHANGED <<pdfCache, patients, reports, pdfAudit, pdfArgs, pdfMsgs>>
    /\ UNCHANGED <<cache, studies, images, tasks, audit, args, msgs, exec,
                   faults, ttlElapsed, everCompleted>>
    /\ UNCHANGED <<purge, attempts, backfill>>

PdfAuditRow(action, type, t) == [action |-> action, resource_type |-> type, task_id |-> t]

(* Patient.objects.select_related('hospital').get(id=patient_id), then the
   process audit record and the save of processed_items = 0. *)
LoadPatient(e) ==
    /\ pdfExec[e].pc = "load"
    /\ LET t == pdfExec[e].task
       IN  IF pdfExec[e].patient_id \in patients
           THEN /\ pdfAudit' = BagAdd(pdfAudit, PdfAuditRow("process", "Patient", t))
                /\ pdfTasks' = [pdfTasks EXCEPT ![t].processed_items = 0]
                /\ pdfExec' = [pdfExec EXCEPT ![e].pc = "generate"]
           ELSE /\ pdfExec' = [pdfExec EXCEPT ![e].pc = "not_found"]
                /\ UNCHANGED <<pdfAudit, pdfTasks>>
    /\ UNCHANGED <<pdfCache, patients, reports, pdfArgs, pdfMsgs>>
    /\ UNCHANGED <<cache, studies, images, tasks, audit, args, msgs, exec,
                   faults, ttlElapsed, everCompleted>>
    /\ UNCHANGED <<purge, attempts, backfill>>

(* The PDF is generated and saved, the PatientReport row is created (its
   patient foreign key raises IntegrityError when the patient row is gone), the
   job is saved completed, the create audit record is written and the result is
   returned. *)
GenerateAndStore(e) ==
    /\ pdfExec[e].pc = "generate"
    /\ LET t == pdfExec[e].task
           p == pdfExec[e].patient_id
       IN  IF p \in patients
           THEN /\ reports' = reports \cup {[patient |-> p, task_id |-> t]}
                /\ pdfTasks' = [pdfTasks EXCEPT ![t].processed_items = 1,
                                                ![t].status = "completed",
                                                ![t].result = "pdf"]
                /\ pdfAudit' = BagAdd(pdfAudit, PdfAuditRow("create", "PatientReport", t))
                /\ pdfExec' = [pdfExec EXCEPT ![e].pc = "release", ![e].result = "pdf"]
           ELSE /\ pdfExec' = [pdfExec EXCEPT ![e].pc = "except",
                                              ![e].exc = "IntegrityError"]
                /\ UNCHANGED <<reports, pdfTasks, pdfAudit>>
    /\ UNCHANGED <<pdfCache, patients, pdfArgs, pdfMsgs>>
    /\ UNCHANGED <<cache, studies, images, tasks, audit, args, msgs, exec,
                   faults, ttlElapsed, everCompleted>>
    /\ UNCHANGED <<purge, attempts, backfill>>

(* except Patient.DoesNotExist: the job is saved failed, the failed audit
   record is written, and the exception is raised again, to the handler of
   line 523. *)
PatientNotFound(e) ==
    /\ pdfExec[e].pc = "not_found"
    /\ LET t == pdfExec[e].task
       IN  /\ pdfTasks' = [pdfTasks EXCEPT ![t].status = "failed",
                                           ![t].error_message = "not found",
                                           ![t].failed_items = 1]
           /\ pdfAudit' = BagAdd(pdfAudit, PdfAuditRow("failed", "Patient", t))
    /\ pdfExec' = [pdfExec EXCEPT ![e].pc = "except", ![e].exc = "DoesNotExist"]
    /\ UNCHANGED <<pdfCache, patients, reports, pdfArgs, pdfMsgs>>
    /\ UNCHANGED <<cache, studies, images, tasks, audit, args, msgs, exec,
                   faults, ttlElapsed, everCompleted>>
    /\ UNCHANGED <<purge, attempts, backfill>>

(* except Exception as exc: when task_status is bound the job is saved failed
   with str(exc). *)
PdfMarkTaskFailed(e) ==
    /\ pdfExec[e].pc = "except"
    /\ LET t == pdfExec[e].task
       IN  pdfTasks' = IF pdfExec[e].bound
                       THEN [pdfTasks EXCEPT ![t].status = "failed",
                                             ![t].error_message = pdfExec[e].exc,
                                             ![t].failed_items = 1]
                       ELSE pdfTasks
    /\ pdfExec' = [pdfExec EXCEPT ![e].pc = "retry"]
    /\ UNCHANGED <<pdfCache, patients, reports, pdfAudit, pdfArgs, pdfMsgs>>
    /\ UNCHANGED <<cache, studies, images, tasks, audit, args, msgs, exec,
                   faults, ttlElapsed, everCompleted>>
    /\ UNCHANGED <<purge, attempts, backfill>>

(* raise self.retry(exc=exc) *)
PdfRetry(e) ==
    /\ pdfExec[e].pc = "retry"
    /\ pdfMsgs' = IF pdfExec[e].retries < max_retries /\ Budget
                  THEN pdfMsgs \cup {[task |-> pdfExec[e].task,
                                      retries |-> pdfExec[e].retries + 1]}
                  ELSE pdfMsgs
    /\ pdfExec' = [pdfExec EXCEPT ![e].pc = "release", ![e].result = "raised"]
    /\ UNCHANGED <<pdfCache, patients, reports, pdfTasks, pdfAudit, pdfArgs>>
    /\ UNCHANGED <<cache, studies, images, tasks, audit, args, msgs, exec,
                   faults, ttlElapsed, everCompleted>>
    /\ UNCHANGED <<purge, attempts, backfill>>

ReleaseOnlyOnReturn(e) ==
    /\ pdfExec[e].pc = "release"
    /\ pdfCache' = IF pdfExec[e].result = "raised"
                   THEN pdfCache
                   ELSE [pdfCache EXCEPT ![pdfExec[e].patient_id] = NoTask]
    /\ pdfExec' = [pdfExec EXCEPT ![e].pc = "done"]
    /\ UNCHANGED <<patients, reports, pdfTasks, pdfAudit, pdfArgs, pdfMsgs>>
    /\ UNCHANGED <<cache, studies, images, tasks, audit, args, msgs, exec,
                   faults, ttlElapsed, everCompleted>>
    /\ UNCHANGED <<purge, attempts, backfill>>

(* finally: cache.delete(lock_key) *)
PdfRelease(e) ==
    /\ pdfExec[e].pc = "release"
    /\ pdfCache' = [pdfCache EXCEPT ![pdfExec[e].patient_id] = NoTask]
    /\ pdfExec' = [pdfExec EXCEPT ![e].pc = "done"]
    /\ UNCHANGED <<patients, reports, pdfTasks, pdfAudit, pdfArgs, pdfMsgs>>
    /\ UNCHANGED <<cache, studies, images, tasks, audit, args, msgs, exec,
                   faults, ttlElapsed, everCompleted>>
    /\ UNCHANGED <<purge, attempts, backfill>>

----------------------------------------------------------------------------
Next ==
    \/ \E kinds \in Batches(MaxLen) : UploadImages(1, 1, kinds)
    \/ \E e \in ExecIds : Redeliver(e)
    \/ \E e \in ExecIds, m \in msgs : Begin(e, m)
    \/ \E e \in ExecIds : Peek(e)
    \/ \E s \in StudyIds : Expire(s)
    \/ \E e \in ExecIds : StoreFault(e)
    \/ \E e \in ExecIds : GetOrCreate(e)
    \/ \E e \in ExecIds : LockedStudyTxn(e)
    \/ \E e \in ExecIds : StudyNotFound(e)
    \/ \E e \in ExecIds : ProcessItem(e)
    \/ \E e \in ExecIds : CreateImage(e)
    \/ \E e \in ExecIds : SaveFinalStudy(e)
    \/ \E e \in ExecIds : FinalAudit(e)
    \/ \E e \in ExecIds : FinalTask(e)
    \/ \E e \in ExecIds : MarkStudyFailed(e)
    \/ \E e \in ExecIds : MarkTaskFailed(e)
    \/ \E e \in ExecIds : HandlerFails(e)
    \/ \E e \in ExecIds : Retry(e)
    \/ \E e \in ExecIds : Release(e)
    \/ \E s \in StudyIds : PurgeStudy(s)

Spec == Init /\ [][Next]_vars

(* Both tasks: the image-processing job of Next on study 1 and report jobs
   for patient 2, who has no studies and may be deleted; MaxExec executions in
   all. *)
NextTasks ==
    \/ \E kinds \in Batches(MaxLen) : UploadImages(1, 1, kinds)
    \/ \E e \in ExecIds : Redeliver(e)
    \/ \E e \in ExecIds, m \in msgs : Begin(e, m)
    \/ \E e \in ExecIds : Peek(e)
    \/ \E s \in StudyIds : Expire(s)
    \/ \E e \in ExecIds : StoreFault(e)
    \/ \E e \in ExecIds : GetOrCreate(e)
    \/ \E e \in ExecIds : LockedStudyTxn(e)
    \/ \E e \in ExecIds : StudyNotFound(e)
    \/ \E e \in ExecIds : ProcessItem(e)
    \/ \E e \in ExecIds : CreateImage(e)
    \/ \E e \in ExecIds : SaveFinalStudy(e)
    \/ \E e \in ExecIds : FinalAudit(e)
    \/ \E e \in ExecIds : FinalTask(e)
    \/ \E e \in ExecIds : MarkStudyFailed(e)
    \/ \E e \in ExecIds : MarkTaskFailed(e)
    \/ \E e \in ExecIds : HandlerFails(e)
    \/ \E e \in ExecIds : Retry(e)
    \/ \E e \in ExecIds : Release(e)
    \/ \E s \in StudyIds : PurgeStudy(s)
    \/ \E t \in PdfTaskIds : GenerateReport(2, t)
    \/ DeletePatient(2)
    \/ \E e \in PdfExecIds, m \in pdfMsgs : PdfBegin(e, m)
    \/ \E e \in PdfExecIds : PdfPeek(e)
    \/ \E p \in PatientIds : PdfExpire(p)
    \/ \E e \in PdfExecIds : PdfFault(e)
    \/ \E e \in PdfExecIds : PdfGetOrCreate(e)
    \/ \E e \in PdfExecIds : LoadPatient(e)
    \/ \E e \in PdfExecIds : GenerateAndStore(e)
    \/ \E e \in PdfExecIds : PatientNotFound(e)
    \/ \E e \in PdfExecIds : PdfMarkTaskFailed(e)
    \/ \E e \in PdfExecIds : PdfRetry(e)
    \/ \E e \in PdfExecIds : PdfRelease(e)

SpecTasks == Init /\ [][NextTasks]_vars

(* Two studies, study 1 in any status with any retention deadline; runs of
   purge_expired_studies, which may overlap, beside one image-processing job
   on study 1. *)
InitPurge ==
    \E st \in StudyStatuses, d1 \in Dates \cup {NoDate}, d2 \in Dates \cup {NoDate} :
        InitWith([s \in StudyIds |->
                    IF s = 1 THEN StudyRow(st, d1) ELSE StudyRow("archived", d2)])

NextPurge ==
    \/ \E r \in RunIds : PurgeSelect(r)
    \/ \E r \in RunIds : PurgeAudit(r)
    \/ \E r \in RunIds : PurgeDelete(r)
    \/ \E r \in RunIds : PurgeFails(r)
    \/ \E r \in RunIds : PurgeReturn(r)
    \/ \E kinds \in Batches(1) : UploadImages(1, 1, kinds)
    \/ \E m \in msgs : Begin(1, m)
    \/ GetOrCreate(1)
    \/ LockedStudyTxn(1)
    \/ StudyNotFound(1)
    \/ ProcessItem(1)
    \/ CreateImage(1)
    \/ SaveFinalStudy(1)
    \/ FinalAudit(1)
    \/ FinalTask(1)
    \/ MarkStudyFailed(1)
    \/ MarkTaskFailed(1)
    \/ Retry(1)
    \/ Release(1)

SpecPurge == InitPurge /\ [][NextPurge]_vars

(* One enqueued job and the chain of its retries, run by one worker that is
   reused: every store call of every attempt may fail, no message is delivered
   twice, and a retry is taken up after the attempt before it has ended. *)
NextRetry ==
    \/ \E kinds \in Batches(1) : UploadImages(1, 1, kinds)
    \/ \E m \in msgs : Begin(1, m)
    \/ StoreFaultWithin(1, MaxChainFaults)
    \/ GetOrCreate(1)
    \/ LockedStudyTxn(1)
    \/ ProcessItem(1)
    \/ CreateImage(1)
    \/ SaveFinalStudy(1)
    \/ FinalAudit(1)
    \/ FinalTask(1)
    \/ MarkStudyFailed(1)
    \/ MarkTaskFailed(1)
    \/ HandlerFails(1)
    \/ Retry(1)
    \/ Release(1)
    \/ Recycle(1)

SpecRetry == Init /\ [][NextRetry]_vars

(* Two studies with any study date, each with or without a retention
   deadline, and runs of calculate_retention_dates, which may overlap. *)
InitBackfill ==
    \E st \in StudyStatuses, d1 \in StudyDates, d2 \in StudyDates,
       r1 \in {NoDate, KeptDate}, r2 \in {NoDate, KeptDate} :
        InitWith([s \in StudyIds |->
                    IF s = 1 THEN [StudyRow(st, r1) EXCEPT !.study_date = d1]
                    ELSE [StudyRow("completed", r2) EXCEPT !.study_date = d2]])

NextBackfill ==
    \/ \E r \in RunIds : BackfillSelect(r)
    \/ \E r \in RunIds : BackfillSave(r)
    \/ \E r \in RunIds : BackfillFails(r)
    \/ \E r \in RunIds : BackfillReturn(r)

SpecBackfill == InitBackfill /\ [][NextBackfill]_vars

(* Two studies, both pending: jobs on different studies race on the store. *)
InitCross == InitWith([s \in StudyIds |-> StudyRow("pending", NoDate)])

NextCross ==
    \/ \E s \in StudyIds, t \in TaskIds, kinds \in Batches(MaxLen) :
          UploadImages(s, t, kinds)
    \/ \E e \in ExecIds, m \in msgs : Begin(e, m)
    \/ \E e \in ExecIds : Peek(e)
    \/ \E e \in ExecIds : GetOrCreate(e)
    \/ \E e \in ExecIds : LockedStudyTxn(e)
    \/ \E e \in ExecIds : ProcessItem(e)
    \/ \E e \in ExecIds : CreateImage(e)
    \/ \E e \in ExecIds : SaveFinalStudy(e)
    \/ \E e \in ExecIds : FinalAudit(e)
    \/ \E e \in ExecIds : FinalTask(e)
    \/ \E e \in ExecIds : Release(e)

SpecCross == InitCross /\ [][NextCross]_vars

----------------------------------------------------------------------------
(* Stored rows of one uploaded file / of one SOP Instance UID *)

RECURSIVE BagCount(_, _)
BagCount(B, S) ==
    IF S = {} THEN 0
    ELSE LET x == CHOOSE y \in S : TRUE
         IN  B[x] + BagCount(B, S \ {x})

CopiesOfItem(s, i) ==
    BagCount(images, {r \in DOMAIN images : r.study = s /\ r.instance_number = i})

CopiesOfUid(u) ==
    BagCount(images, {r \in DOMAIN images : r.sop_instance_uid = u})

NoItemStoredTwice ==
    \A r \in DOMAIN images : CopiesOfItem(r.study, r.instance_number) <= 1

(* e entered the item loop. *)
ProcessesItems(e) == exec[e].idx > 0

(* C1 as stated: of two overlapping executions of the same delivered job the
   later one never processes items (it is skipped or finds the study
   completed), and no item of the batch is stored twice. *)
C1_Original ==
    /\ \A e \in ExecIds : exec[e].overlapped => ~ProcessesItems(e)
    /\ NoItemStoredTwice

(* C1, amended: while no lock entry of the study has expired by TTL under a
   running holder, an execution that starts while another execution of the
   same job holds the lock is skipped (it never processes items); if an entry
   has expired both may process the batch; in every case no item of the batch
   is stored twice. *)
C1_OverlapSkipsUnlessTtlElapsed ==
    /\ \A e \in ExecIds :
          exec[e].overlapped /\ exec[e].study_id \notin ttlElapsed =>
              /\ ~ProcessesItems(e)
              /\ exec[e].pc \in {"peek", "done"}
              /\ exec[e].pc = "done" => exec[e].result = "skipped"
    /\ NoItemStoredTwice

C1_Witness ==
    \E e, o \in ExecIds :
        /\ e # o
        /\ exec[e].task = exec[o].task
        /\ exec[e].overlapped
        /\ exec[e].result = "skipped"
        /\ exec[e].study_id \notin ttlElapsed
        /\ Len(exec[o].created) > 0

(* C2: no two stored DicomImage rows carry the same SOP Instance UID. *)
C2_SopInstanceUidUnique ==
    \A u \in SopUids : CopiesOfUid(u) <= 1

(* Two jobs on different studies both passed the duplicate pre-check for the
   same UID; one row is stored and the other job's create was rejected. *)
C2_Witness ==
    \E e, o \in ExecIds :
        /\ exec[e].study_id # exec[o].study_id
        /\ \E u \in SopUids : CopiesOfUid(u) = 1
        /\ Len(exec[e].created) > 0
        /\ \E m \in 1..Len(exec[o].errors) : exec[o].errors[m].exc = "IntegrityError"

----------------------------------------------------------------------------
(* One job, executed once and alone, over batches of up to MaxBatchLen files. *)
NextBatch ==
    \/ \E kinds \in Batches(MaxBatchLen) : UploadImages(1, 1, kinds)
    \/ \E m \in msgs : Begin(1, m)
    \/ GetOrCreate(1)
    \/ LockedStudyTxn(1)
    \/ ProcessItem(1)
    \/ CreateImage(1)
    \/ SaveFinalStudy(1)
    \/ FinalAudit(1)
    \/ FinalTask(1)
    \/ Release(1)

SpecBatch == Init /\ [][NextBatch]_vars

(* One job, executed once and alone, over long batches. *)
NextLong ==
    \/ \E kinds \in LongBatches(MaxLongLen) : UploadImages(1, 1, kinds)
    \/ \E m \in msgs : Begin(1, m)
    \/ GetOrCreate(1)
    \/ LockedStudyTxn(1)
    \/ ProcessItem(1)
    \/ CreateImage(1)
    \/ SaveFinalStudy(1)
    \/ FinalAudit(1)
    \/ FinalTask(1)
    \/ Release(1)

SpecLong == Init /\ [][NextLong]_vars

(* e returns the batch result in this step (line 332). *)
ReturnsBatch(e) == exec[e].pc = "final_task" /\ exec'[e].pc = "release"

(* e saves the study's final status in this step (line 284 or 305). *)
SavesFinalStudy(e) == exec[e].pc = "final_study" /\ exec'[e].pc = "final_audit"

Raising(e) ==
    exec[e].pc \in {"except", "except_task", "retry"} \/ exec[e].result = "raised"

(* C3: when exactly one item of a batch of N raises, the execution still
   handles the other N-1 items, saves the study as failed with a non-empty
   error message and returns normally with N-1 entries in
   created_images/skipped_images and one in errors; no item failure makes
   the task raise. *)
C3_OneItemFailureKeepsBatch ==
    [][\A e \in ExecIds :
          /\ ~Raising(e)'
          /\ SavesFinalStudy(e) /\ Len(exec[e].errors) = 1 =>
                /\ studies'[exec[e].study_id].status = "failed"
                /\ studies'[exec[e].study_id].error_message # <<>>
          /\ ReturnsBatch(e) /\ Len(exec[e].errors) = 1 =>
                /\ Len(exec[e].created) + Len(exec[e].skipped) = NFiles(e) - 1
                /\ exec'[e].result = "batch"]_vars

C3_Witness ==
    \E e \in ExecIds :
        /\ exec[e].pc = "done" /\ exec[e].result = "batch"
        /\ NFiles(e) >= 3
        /\ Len(exec[e].errors) = 1
        /\ exec[e].errors[1].file = 2
        /\ Len(exec[e].created) + Len(exec[e].skipped) = NFiles(e) - 1
        /\ studies[exec[e].study_id].status = "failed"

(* The first k error messages, spelled out. *)
FirstErrors(errs, k) ==
    [i \in 1..(IF Len(errs) < k THEN Len(errs) ELSE k) |-> errs[i]]

(* C9: an execution that runs through the whole batch saves the study as
   completed, stamped with DICOM_PROCESSING_VERSION, exactly when no item
   produced an error, and otherwise as failed with the first 3 error messages
   as its error message; when it returns, the job row has the same status. *)
C9_FinalStatusFollowsErrors ==
    [][\A e \in ExecIds :
          LET s == exec[e].study_id
              t == exec[e].task
          IN  /\ SavesFinalStudy(e) =>
                    IF exec[e].errors = <<>>
                    THEN /\ studies'[s].status = "completed"
                         /\ studies'[s].processing_version = "v1.2.0"
                    ELSE /\ studies'[s].status = "failed"
                         /\ studies'[s].error_message = FirstErrors(exec[e].errors, 3)
              /\ ReturnsBatch(e) =>
                    tasks'[t].status =
                        IF exec[e].errors = <<>> THEN "completed" ELSE "failed"]_vars

(* A batch with four failing items has returned: the message holds three. *)
C9_Witness ==
    \E e \in ExecIds :
        /\ exec[e].pc = "done" /\ exec[e].result = "batch"
        /\ Len(exec[e].errors) = 4
        /\ Len(studies[exec[e].study_id].error_message) = 3
        /\ tasks[exec[e].task].status = "failed"

(* C4: whenever an execution of either task that acquired its lock key
   finishes, by return or by raising, the lock key of its study or patient is
   absent from the cache at that moment. *)
C4_LockAbsentAtFinish ==
    [][/\ \A e \in ExecIds :
             InLocked(e) /\ exec'[e].pc = "done" =>
                 cache'[exec[e].study_id] = NoTask
       /\ \A e \in PdfExecIds :
             PdfInLocked(e) /\ pdfExec'[e].pc = "done" =>
                 pdfCache'[pdfExec[e].patient_id] = NoTask]_vars

(* A report job that found no patient has finished by raising, and an image
   job has returned its batch with an item failure. *)
C4_Witness ==
    /\ \E e \in PdfExecIds :
          /\ pdfExec[e].pc = "done"
          /\ pdfExec[e].exc = "DoesNotExist"
          /\ pdfExec[e].result = "raised"
          /\ pdfCache[pdfExec[e].patient_id] = NoTask
    /\ \E e \in ExecIds :
          /\ exec[e].pc = "done"
          /\ exec[e].result = "batch"
          /\ exec[e].errors # <<>>
          /\ cache[exec[e].study_id] = NoTask

----------------------------------------------------------------------------
(* e takes a step. *)
Steps(e) == exec'[e] # exec[e]

(* C5: an execution that reads the locked study row as completed returns
   already_completed, stores no image, leaves the study row unchanged and
   appends no audit record, up to and including its release of the lock. *)
C5_CompletedIsLeftAlone ==
    [][\A e \in ExecIds :
          /\ exec[e].pc = "txn" /\ studies[exec[e].study_id].status = "completed"
             /\ Steps(e) /\ exec'[e].exc = "none" =>
                /\ exec'[e].result = "already_completed"
                /\ exec'[e].pc = "release"
                /\ UNCHANGED <<studies, images, audit>>
          /\ exec[e].result = "already_completed" /\ Steps(e) =>
                /\ exec'[e].pc = "done"
                /\ exec'[e].result = "already_completed"
                /\ UNCHANGED <<studies, images, audit>>]_vars

C5_Witness ==
    \E e \in ExecIds :
        /\ exec[e].pc = "done"
        /\ exec[e].result = "already_completed"
        /\ studies[exec[e].study_id].status = "completed"

AllowedTransitions ==
    {<<"pending", "in_progress">>, <<"failed", "in_progress">>,
     <<"in_progress", "completed">>, <<"in_progress", "failed">>}

(* C6 as stated: every change of a study's status made by a step of
   process_dicom_images_async is pending -> in_progress, failed ->
   in_progress, in_progress -> completed or in_progress -> failed. *)
C6_Original ==
    [][\A s \in StudyIds :
          (\E e \in ExecIds : Steps(e)) /\ studies'[s].status # studies[s].status =>
              <<studies[s].status, studies'[s].status>> \in AllowedTransitions]_vars

LockHolders(s) == {e \in ExecIds : InLocked(e) /\ exec[e].study_id = s}

(* C7 as stated: at most one execution per study is between its acquisition
   of the lock key and its release, also when the TTL elapses. *)
C7_Original ==
    \A s \in StudyIds : Cardinality(LockHolders(s)) <= 1

(* C7, amended: for a study none of whose lock entries has expired by TTL
   under a running holder, at most one execution is between its acquisition
   of the lock key and its release. *)
C7_OneHolderUnlessTtlElapsed ==
    \A s \in StudyIds : s \notin ttlElapsed => Cardinality(LockHolders(s)) <= 1

C7_Witness ==
    \E e, o \in ExecIds :
        /\ e # o
        /\ exec[e].study_id = exec[o].study_id
        /\ exec[e].study_id \notin ttlElapsed
        /\ exec[e].pc = "create"
        /\ exec[o].result = "skipped"

(* C8 as stated: a skipped execution reports as existing_task_id the holder
   of the key at the moment its add failed. *)
C8_Original ==
    \A e \in ExecIds :
        exec[e].result = "skipped" =>
            exec[e].holder # NoTask /\ exec[e].existing = exec[e].holder

(* C8, amended: if the lock key is held when an execution starts, the
   execution returns skipped / already_processing without raising and leaves
   the lock entry, the study row, the job rows, the stored images and the
   audit log unchanged; existing_task_id is what the key holds when it is read
   after the failed add: the holder, or nothing when the key was released or
   expired in between. *)
C8_SkipChangesNothing ==
    [][\A e \in ExecIds :
          /\ exec[e].pc = "idle" /\ Steps(e) /\ cache[exec'[e].study_id] # NoTask =>
                /\ exec'[e].pc = "peek"
                /\ UNCHANGED <<cache, studies, tasks, images, audit>>
          /\ exec[e].pc = "peek" /\ Steps(e) =>
                /\ exec'[e].pc = "done"
                /\ exec'[e].result = "skipped"
                /\ exec'[e].existing = cache[exec[e].study_id]
                /\ UNCHANGED <<cache, studies, tasks, images, audit>>]_vars

(* A skipped execution that read the key after its holder had released it. *)
C8_Witness ==
    \E e \in ExecIds :
        /\ exec[e].result = "skipped"
        /\ exec[e].holder # NoTask
        /\ exec[e].existing = NoTask

(* C10 as stated: over all attempts every item of the batch is stored at most
   once, and a retry does not process a study that has reached completed. *)
C10_Original ==
    [][/\ NoItemStoredTwice'
       /\ \A e \in ExecIds :
             exec[e].retries > 0 /\ exec[e].pc = "txn" /\ ProcessesItems(e)' =>
                 exec[e].study_id \notin everCompleted]_vars

----------------------------------------------------------------------------
(* The batch of e succeeds when run alone: no file whose processing raises and
   no SOP Instance UID carried by two files. *)
SucceedsAlone(e) ==
    /\ \A i \in 1..NFiles(e) : Files(e)[i].kind # "bad"
    /\ \A i, j \in 1..NFiles(e) :
          i # j /\ Files(e)[i].uid # NoUid => Files(e)[i].uid # Files(e)[j].uid

NeverPurged == \A r \in DOMAIN audit : r.action # "delete"

(* C11 as stated: when two deliveries of a batch that succeeds alone have both
   run through the batch (the lock did not keep them apart) and no store call
   failed, every item of the batch is stored exactly once and the study is
   completed. *)
C11_Original ==
    \A e, o \in ExecIds :
        /\ e # o
        /\ exec[e].task = exec[o].task /\ exec[e].retries = exec[o].retries
        /\ exec[e].pc = "done" /\ exec[e].result = "batch"
        /\ exec[o].pc = "done" /\ exec[o].result = "batch"
        /\ faults = 0 /\ NeverPurged /\ SucceedsAlone(e)
        => /\ studies[exec[e].study_id].status = "completed"
           /\ \A i \in 1..NFiles(e) :
                 CopiesOfItem(exec[e].study_id, Files(e)[i].instance_number) = 1

----------------------------------------------------------------------------
(* The steps of the handler of line 339 whose store call succeeded. *)
UpdatesStudyFailed(e) == exec[e].pc = "except" /\ exec'[e].pc = "except_task"

SavesJobFailed(e) ==
    /\ exec[e].pc = "except_task" /\ exec'[e].pc = "retry"
    /\ exec[e].ts.status # "unbound"
    /\ exec'[e].ts # exec[e].ts
    /\ SaveOk(exec'[e].ts)

SkipsUnboundJob(e) ==
    /\ exec[e].pc = "except_task" /\ exec'[e].pc = "retry"
    /\ exec[e].ts.status = "unbound"

StudyMarkedFailed(e) ==
    LET s == exec[e].study_id
    IN  StudyExists(s) =>
            /\ studies'[s].status = "failed"
            /\ studies'[s].error_message =
                  <<[file |-> 0, exc |-> exec[e].exc,
                     chars |-> Min(ExcChars(exec[e].exc), 500)]>>

(* C12 as stated: when the failure update of the handler succeeds, the study
   is failed with the exception text cut to 500 characters and the job is
   failed before the task raises for retry. *)
C12_Original ==
    [][\A e \in ExecIds :
          /\ UpdatesStudyFailed(e) => StudyMarkedFailed(e)
          /\ SavesJobFailed(e) \/ SkipsUnboundJob(e) =>
                tasks'[exec[e].task].status = "failed"]_vars

(* C12, amended: when the failure update of the handler succeeds, the study
   (if its row exists) is failed with the exception text cut to 500
   characters; the job is saved failed if the exception was raised after
   get_or_create returned the job record, and when get_or_create itself
   raised the job record is left as it was. *)
C12_HandlerMarksFailed ==
    [][\A e \in ExecIds :
          /\ UpdatesStudyFailed(e) => StudyMarkedFailed(e)
          /\ SavesJobFailed(e) => tasks'[exec[e].task].status = "failed"
          /\ SkipsUnboundJob(e) => tasks' = tasks]_vars

(* A store error of more than 500 characters was raised after the job record
   was fetched; study and job are failed and the task has raised. *)
C12_Witness ==
    \E e \in ExecIds :
        /\ exec[e].result = "raised"
        /\ exec[e].exc = "DatabaseError"
        /\ studies[exec[e].study_id].status = "failed"
        /\ studies[exec[e].study_id].error_message =
              <<[file |-> 0, exc |-> "DatabaseError", chars |-> 500]>>
        /\ tasks[exec[e].task].status = "failed"
        /\ tasks[exec[e].task].error_message = <<StrExc("DatabaseError")>>

----------------------------------------------------------------------------
(* The items of finished executions that carry SOP Instance UID u, and how
   their execution reported them. *)
Carriers(u) ==
    {c \in ExecIds \X (1..MaxLen) :
        /\ exec[c[1]].pc = "done" /\ exec[c[1]].result = "batch"
        /\ c[2] <= NFiles(c[1])
        /\ Files(c[1])[c[2]].uid = u}

InstanceOf(c) == Files(c[1])[c[2]].instance_number

InSeq(x, seq) == \E k \in 1..Len(seq) : seq[k] = x

ReportedCreated(c) == InSeq(InstanceOf(c), exec[c[1]].created)
ReportedSkipped(c) == InSeq(InstanceOf(c), exec[c[1]].skipped)
ReportedError(c) ==
    \E k \in 1..Len(exec[c[1]].errors) : exec[c[1]].errors[k].file = InstanceOf(c)

AllJobsFinished ==
    /\ msgs = {}
    /\ \A e \in ExecIds : exec[e].pc \in {"idle", "done"}

(* C13 as stated: once the jobs have finished, of the uploaded items that
   carry the same SOP Instance UID exactly one is stored and every other one
   is reported skipped. *)
C13_Original ==
    \A u \in SopUids :
        AllJobsFinished /\ Cardinality(Carriers(u)) >= 2 =>
            /\ CopiesOfUid(u) = 1
            /\ Cardinality({c \in Carriers(u) : ReportedCreated(c)}) = 1
            /\ \A c \in Carriers(u) : ReportedCreated(c) \/ ReportedSkipped(c)

(* The pre-check of line 198 finds a stored row with the UID of e's item. *)
PreCheckFinds(e) ==
    /\ exec[e].pc = "item"
    /\ Files(e)[exec[e].idx].kind = "dcm"
    /\ \E r \in DOMAIN images : r.sop_instance_uid = Files(e)[exec[e].idx].uid
    /\ Steps(e)

(* C13, amended: an item whose SOP Instance UID is already stored in any study
   when its pre-check runs is reported skipped and no image is stored; of the
   uploaded items that carry the same UID at most one is stored (exactly one
   once the jobs have finished, when no two jobs ran on one study at the same
   time), at most one is reported created, and every other one is reported
   skipped or, when its create was rejected by the store, as an item error. *)
C13_DuplicateNeverStored ==
    [][/\ \A e \in ExecIds :
             PreCheckFinds(e) =>
                 /\ exec'[e].skipped =
                       Append(exec[e].skipped, Files(e)[exec[e].idx].instance_number)
                 /\ exec'[e].created = exec[e].created
                 /\ exec'[e].errors = exec[e].errors
                 /\ images' = images
       /\ \A u \in SopUids :
             /\ CopiesOfUid(u)' <= 1
             /\ AllJobsFinished' /\ Cardinality(Carriers(u)') >= 2 /\ ttlElapsed' = {} =>
                   CopiesOfUid(u)' = 1
             /\ AllJobsFinished' =>
                   /\ Cardinality({c \in Carriers(u)' : ReportedCreated(c)'}) <= 1
                   /\ \A c \in Carriers(u)' :
                         ReportedCreated(c)' \/ ReportedSkipped(c)' \/ ReportedError(c)']_vars

(* Two finished jobs carried the same UID: one item was skipped by the
   pre-check and the row is stored once. *)
C13_Witness ==
    \E u \in SopUids :
        /\ AllJobsFinished
        /\ CopiesOfUid(u) = 1
        /\ \E c, d \in Carriers(u) :
              /\ c[1] # d[1]
              /\ exec[c[1]].study_id # exec[d[1]].study_id
              /\ ReportedCreated(c)
              /\ ReportedSkipped(d)

----------------------------------------------------------------------------
(* e finishes: the step that takes it out of the locked section. *)
Finishes(e) == InLocked(e) /\ exec'[e].pc = "done"

(* C14 as stated: when an execution that acquired the lock finishes, its job
   record is completed or failed. *)
C14_Original ==
    [][\A e \in ExecIds :
          Finishes(e) =>
              /\ TaskExists(exec[e].task)'
              /\ tasks'[exec[e].task].status \in {"completed", "failed"}]_vars

----------------------------------------------------------------------------
(* e ran without a store failure for a study id that has no row, and never
   loaded the study. *)
RanWithoutStudy(e) ==
    /\ faults = 0
    /\ ~StudyExists(exec[e].study_id)
    /\ exec[e].study = Unbound
    /\ exec[e].result # "already_completed"

(* C15 as stated: an execution for a study id that does not exist ends with
   the job record failed, a failed audit record for the study id, the result
   'Study not found' and no retry scheduled. *)
C15_Original ==
    [][\A e \in ExecIds :
          Finishes(e) /\ RanWithoutStudy(e) =>
              /\ exec[e].result = "not_found"
              /\ TaskExists(exec[e].task)'
              /\ tasks'[exec[e].task].status = "failed"
              /\ AuditRow("failed", exec[e].study_id, exec[e].task) \in DOMAIN audit'
              /\ \A m \in msgs' : m.task # exec[e].task]_vars

(* The delete audit records that reference study s. *)
DeleteAudits(s) ==
    BagCount(audit, {a \in DOMAIN audit : a.action = "delete" /\ a.resource_id = s})

ImagesOf(s) == BagCount(images, {r \in DOMAIN images : r.study = s})

(* C16: when purge_expired_studies deletes a study, a delete audit record that
   references the study's id was appended before the deletion; no step removes
   an audit record; and once the study is gone its images are gone and the
   audit record is still there. *)
C16_AuditOutlivesStudy ==
    [][\A s \in StudyIds :
         /\ (StudyExists(s) /\ ~StudyExists(s)') => DeleteAudits(s) >= 1
         /\ DeleteAudits(s)' >= DeleteAudits(s)
         /\ ~StudyExists(s)' => (DeleteAudits(s)' >= 1 /\ ImagesOf(s)' = 0)]_vars

(* A run has returned, having deleted a study that an image job had started on, and the delete
   audit record of that study is in the log. *)
C16_Witness ==
    \E r \in RunIds, s \in StudyIds :
        /\ purge[r].pc = "done"
        /\ purge[r].total_purged >= 1
        /\ ~StudyExists(s)
        /\ DeleteAudits(s) >= 1
        /\ \E a \in DOMAIN audit : a.action = "process" /\ a.resource_id = s

(* No run of purge_expired_studies is inside its loop. *)
NoRunInProgress == \A r \in RunIds : purge[r].pc \in {"idle", "done"}

(* C17 as stated: after any sequence of runs, overlapping or with failing
   deletions, a purged study has exactly one delete audit record and every
   other study has none. *)
C17_Original ==
    NoRunInProgress =>
        \A s \in StudyIds : DeleteAudits(s) = IF StudyExists(s) THEN 0 ELSE 1

(* The step is taken by a run of purge_expired_studies. *)
PurgeStep == purge' # purge

RangeOf(q) == {q[i] : i \in 1..Len(q)}

(* The step changes the row of study s, its images or its job records. *)
Touches(s) ==
    \/ studies'[s] # studies[s]
    \/ ImagesOf(s)' # ImagesOf(s)
    \/ \E t \in TaskIds : tasks[t].study_id = s /\ tasks'[t] # tasks[t]

(* The row is archived and its retention deadline is set and before today. *)
ArchivedPastDeadline(row) ==
    /\ row.status = "archived"
    /\ row.retention_until \in Dates
    /\ row.retention_until < Today

(* C18 as stated, read at the time of the deletion: a run changes only studies
   that are archived with a deadline before today. *)
C18_Original ==
    [][PurgeStep => \A s \in StudyIds : Touches(s) => ArchivedPastDeadline(studies[s])]_vars

(* C18: a run selects exactly the studies that are archived with a deadline
   that is set and strictly before today when its query is evaluated; it never
   adds a study to its selection afterwards; and it changes nothing of a
   study other than the selected study it is deleting. *)
C18_DeletesOnlySelected ==
    [][\A r \in RunIds :
         /\ (purge[r].pc = "idle" /\ purge'[r].pc # "idle") =>
                /\ RangeOf(purge'[r].todo) =
                       {s \in StudyIds : ArchivedPastDeadline(studies[s])}
                /\ Len(purge'[r].todo) = Cardinality(RangeOf(purge'[r].todo))
         /\ purge[r].pc # "idle" =>
                \/ purge'[r].todo = purge[r].todo
                \/ purge[r].todo # <<>> /\ purge'[r].todo = Tail(purge[r].todo)
         /\ purge'[r] # purge[r] =>
                \A s \in StudyIds :
                    Touches(s) => /\ purge[r].pc = "delete"
                                  /\ purge[r].todo # <<>>
                                  /\ s = Head(purge[r].todo)]_vars

(* A run has deleted study 1 and returned, and study 2, archived with a
   deadline of today, is still there. *)
C18_Witness ==
    \E r \in RunIds :
        /\ purge[r].pc = "done"
        /\ purge[r].total_purged = 1
        /\ ~StudyExists(1)
        /\ studies[2] = StudyRow("archived", Today)

(* The run's loop body failed for the study at the head of its selection: the
   study is named in errors, nothing is counted, and the loop goes on. *)
RecordsFailure(r) ==
    /\ purge'[r].errors = Append(purge[r].errors, Head(purge[r].todo))
    /\ purge'[r].total_purged = purge[r].total_purged
    /\ purge'[r].todo = Tail(purge[r].todo)
    /\ purge'[r].pc = "loop"
    /\ studies' = studies /\ images' = images

(* The run deleted the study at the head of its selection and counted it. *)
PurgesHead(r) ==
    /\ \E s \in StudyIds : /\ s = Head(purge[r].todo)
                           /\ ~StudyExists(s)'
                           /\ ImagesOf(s)' = 0
    /\ purge'[r].total_purged = purge[r].total_purged + 1
    /\ purge'[r].errors = purge[r].errors
    /\ purge'[r].todo = Tail(purge[r].todo)
    /\ purge'[r].pc = "loop"

(* C19: within one run every selected study is either deleted and counted in
   total_purged or named in the errors list, a failure leaves the rest of the
   selection to be purged, the run returns only when the selection is used up,
   and total_purged plus the number of errors equals the number selected. *)
C19_FailureDoesNotStopRun ==
    [][\A r \in RunIds :
         /\ (purge'[r] # purge[r] /\ purge[r].pc = "loop" /\ purge[r].todo # <<>>) =>
                \/ purge'[r] = [purge[r] EXCEPT !.pc = "delete"]
                \/ RecordsFailure(r)
         /\ (purge'[r] # purge[r] /\ purge[r].pc = "delete") =>
                (PurgesHead(r) \/ RecordsFailure(r))
         /\ (purge'[r] # purge[r] /\ purge'[r].pc = "done") => purge[r].todo = <<>>
         /\ purge'[r].pc # "idle" =>
                purge'[r].total_purged + Len(purge'[r].errors) + Len(purge'[r].todo)
                    = purge'[r].selected
         /\ purge'[r].pc = "done" =>
                purge'[r].total_purged + Len(purge'[r].errors) = purge'[r].selected]_vars

(* A run that selected both studies has returned: purging one of them failed
   and is in errors, the other is deleted and counted. *)
C19_Witness ==
    \E r \in RunIds, s \in StudyIds :
        /\ purge[r].pc = "done"
        /\ purge[r].selected = 2
        /\ purge[r].errors = <<s>>
        /\ purge[r].total_purged = 1
        /\ StudyExists(s)
        /\ \A o \in StudyIds \ {s} : ~StudyExists(o)

(* e was the attempt with retries = max_retries, and it has raised. *)
LastAttemptFailed(e) ==
    /\ exec[e].pc = "done"
    /\ exec[e].result = "raised"
    /\ exec[e].retries = max_retries

(* C20 as stated: a job is executed at most max_retries + 1 times, and once
   the last attempt has failed no message of the job is left, the job record
   and the study are failed, and the lock key is absent. *)
C20_Original ==
    /\ \A t \in TaskIds : attempts[t] <= max_retries + 1
    /\ \A e \in ExecIds :
          LastAttemptFailed(e) =>
              /\ msgs = {}
              /\ tasks[exec[e].task].status = "failed"
              /\ studies[exec[e].study_id].status = "failed"
              /\ cache[exec[e].study_id] = NoTask

(* C20: a job is executed at most max_retries + 1 times; a failed attempt
   sends one retry message while its retries are below max_retries and none at
   max_retries; the handler's update of every attempt sets the study to
   failed, and its save of the job record, when it writes anything, sets the
   job to failed; after the handler of the last attempt nothing changes the
   study or the job record; and when the last attempt has ended no message is
   left and the lock key is absent. *)
C20_RetriesExhausted ==
    [][/\ \A t \in TaskIds : attempts'[t] <= max_retries + 1
       /\ \A e \in ExecIds :
            /\ (exec[e].pc = "retry" /\ exec'[e].pc = "release") =>
                   msgs' = IF exec[e].retries < max_retries
                           THEN msgs \cup {[task |-> exec[e].task,
                                            retries |-> exec[e].retries + 1]}
                           ELSE msgs
            /\ (exec[e].pc = "except" /\ exec'[e].pc = "except_task") =>
                   studies'[exec[e].study_id].status = "failed"
            /\ (exec[e].pc = "except_task" /\ exec'[e].pc = "retry") =>
                   (tasks' = tasks \/ tasks'[exec[e].task].status = "failed")
            /\ (exec[e].retries = max_retries
                    /\ exec[e].pc \in {"retry", "release", "done"}) =>
                   (studies' = studies /\ tasks' = tasks)
            /\ LastAttemptFailed(e)' =>
                   (msgs' = {} /\ cache'[exec'[e].study_id] = NoTask)]_vars

(* The fourth attempt has raised: no message is left, the study and the job
   record are failed and the lock key is absent. *)
C20_Witness ==
    \E e \in ExecIds :
        /\ LastAttemptFailed(e)
        /\ attempts[exec[e].task] = max_retries + 1
        /\ msgs = {}
        /\ tasks[exec[e].task].status = "failed"
        /\ studies[exec[e].study_id].status = "failed"
        /\ cache[exec[e].study_id] = NoTask

(* C21 as stated: no step deletes a job record; a TaskStatus row that exists
   in a state exists in the next, also when its study is purged. *)
C21_Original ==
    [][\A t \in TaskIds : TaskExists(t) => TaskExists(t)']_vars

(* The outcomes recorded by e for the file with instance number i. *)
Outcomes(e, i) ==
    (IF InSeq(i, exec[e].created) THEN 1 ELSE 0)
    + (IF InSeq(i, exec[e].skipped) THEN 1 ELSE 0)
    + Cardinality({k \in 1..Len(exec[e].errors) : exec[e].errors[k].file = i})

(* C22: when an execution that ran through a batch of N items returns, every
   item has exactly one outcome, the saved job record has created + skipped +
   errors = N = total_items = processed_items, and its error_messages are the
   first min(10, errors) error messages. *)
C22_ResultCountsAddUp ==
    [][\A e \in ExecIds :
          ReturnsBatch(e) =>
              LET job == tasks'[exec[e].task]
                  N == NFiles(e)
              IN  /\ \A k \in 1..N : Outcomes(e, Files(e)[k].instance_number) = 1
                  /\ job.result.created = Len(exec[e].created)
                  /\ job.result.skipped = Len(exec[e].skipped)
                  /\ job.result.errors = Len(exec[e].errors)
                  /\ job.result.created + job.result.skipped + job.result.errors = N
                  /\ job.total_items = N
                  /\ job.processed_items = N
                  /\ job.result.error_messages = FirstErrors(exec[e].errors, 10)]_vars

(* A batch of eleven failing files has returned: the result counts eleven
   errors and holds ten messages. *)
C22_Witness ==
    \E e \in ExecIds :
        /\ exec[e].pc = "done" /\ exec[e].result = "batch"
        /\ NFiles(e) = 11
        /\ tasks[exec[e].task].result.errors = 11
        /\ Len(tasks[exec[e].task].result.error_messages) = 10

(* Run r of calculate_retention_dates saves the deadline of study s in this step. *)
SavesDeadline(r, s) ==
    /\ backfill[r].pc = "loop"
    /\ backfill[r].todo # <<>>
    /\ Head(backfill[r].todo).id = s
    /\ backfill'[r].pc = "loop"
    /\ backfill'[r].todo = Tail(backfill[r].todo)

(* Run r evaluates its query in this step. *)
SelectsForBackfill(r) == backfill[r].pc = "idle" /\ backfill'[r].pc = "loop"

(* C23 as stated, with the 6-year period read as six calendar years: the
   deadline a run saves is the study's date six years later. *)
C23_Original ==
    [][\A r \in RunIds, s \in StudyIds :
          SavesDeadline(r, s) =>
              studies'[s].retention_until = AddYears(studies[s].study_date, 6)]_vars

(* C23: a run selects exactly the studies without a deadline and gives each of
   them the date of its study date plus 365 * 6 days, writing nothing else;
   a study that has a deadline keeps it; when a run has returned no study is
   without a deadline; and a run started after another has returned selects
   nothing and changes nothing. *)
C23_BackfillSetsMissingDeadlines ==
    [][/\ \A r \in RunIds :
            /\ SelectsForBackfill(r) =>
                   /\ {backfill'[r].todo[i].id : i \in 1..Len(backfill'[r].todo)}
                          = {s \in StudyIds : StudyExists(s)
                                                /\ studies[s].retention_until = NoDate}
                   /\ (\E o \in RunIds : backfill[o].pc = "done") =>
                          backfill'[r].todo = <<>>
            /\ \A s \in StudyIds :
                   SavesDeadline(r, s) =>
                       /\ studies'[s] =
                              [studies[s] EXCEPT !.retention_until =
                                  DateOf(studies[s].study_date) + 365 * 6]
                       /\ \A o \in StudyIds \ {s} : studies'[o] = studies[o]
            /\ backfill'[r].pc = "done" =>
                   \A s \in StudyIds :
                       StudyExists(s)' => studies'[s].retention_until # NoDate
            /\ (backfill[r].pc = "loop" /\ backfill[r].todo = <<>>) => studies' = studies
       /\ \A s \in StudyIds :
            studies[s].retention_until # NoDate => studies'[s] = studies[s]]_vars

(* A run that updated a study and a run that found nothing to update have both
   returned; one study keeps the deadline it had and the other has the
   deadline computed from its study date. *)
C23_Witness ==
    \E r \in RunIds, o \in RunIds, s \in StudyIds, k \in StudyIds :
        /\ backfill[r].pc = "done" /\ backfill[r].updated_count = 1
        /\ backfill[o].pc = "done" /\ backfill[o].updated_count = 0
        /\ studies[s].retention_until = KeptDate
        /\ studies[k].retention_until = RetentionDate(studies[k].study_date)

(* C24 as stated: when the patient of a report job does not exist, the job
   record is saved failed, a failed audit record is appended, and the
   execution schedules no retry. *)
C24_Original ==
    [][\A e \in PdfExecIds :
          /\ (pdfExec[e].pc = "not_found" /\ pdfExec'[e].pc # "not_found") =>
                 /\ pdfTasks'[pdfExec[e].task].status = "failed"
                 /\ pdfAudit'[PdfAuditRow("failed", "Patient", pdfExec[e].task)]
                        = (IF PdfAuditRow("failed", "Patient", pdfExec[e].task)
                                \in DOMAIN pdfAudit
                           THEN pdfAudit[PdfAuditRow("failed", "Patient", pdfExec[e].task)]
                           ELSE 0) + 1
          /\ (pdfExec[e].exc = "DoesNotExist" /\ pdfExec'[e] # pdfExec[e]) =>
                 pdfMsgs' \subseteq pdfMsgs]_vars

(* C25 as stated: once process_dicom_images_async has saved a study as
   completed, no step of any execution of the task changes its status away
   from completed, also when a step after the completion write raises. *)
C25_Original ==
    [][\A s \in StudyIds :
          (/\ s \in everCompleted
           /\ studies[s].status = "completed"
           /\ \E e \in ExecIds : Steps(e)) =>
              studies'[s].status = "completed"]_vars

----------------------------------------------------------------------------
(* Several batches uploaded to one pending study, with workers that keep
   running: a delivered message is eventually taken and an execution that
   can take its next step eventually takes it.  Uploads are the users' and
   are not forced. *)
InitQueue == InitWith([s \in StudyIds |-> IF s = 1 THEN StudyRow("pending", NoDate)
                                          ELSE Unbound])

Work(e) ==
    \/ \E m \in msgs : Begin(e, m)
    \/ Peek(e)
    \/ GetOrCreate(e)
    \/ LockedStudyTxn(e)
    \/ ProcessItem(e)
    \/ CreateImage(e)
    \/ SaveFinalStudy(e)
    \/ FinalAudit(e)
    \/ FinalTask(e)
    \/ Release(e)

NextQueue ==
    \/ \E t \in TaskIds, kinds \in Batches(MaxLen) : UploadImages(1, t, kinds)
    \/ \E e \in ExecIds : Work(e)

SpecQueue == InitQueue /\ [][NextQueue]_vars /\ \A e \in ExecIds : WF_vars(Work(e))

Enqueued(t) == args[t].study_id # 0

(* Some execution of job t returned the batch result with an outcome for each
   file of the batch. *)
Processed(t) ==
    \E e \in ExecIds :
        /\ exec[e].task = t
        /\ exec[e].result = "batch"
        /\ \A k \in 1..Len(args[t].files) :
              Outcomes(e, args[t].files[k].instance_number) >= 1

(* C26 as stated: every batch enqueued by upload_images is eventually
   processed: each file of the batch appears as created, skipped or error in
   the result of some execution of its job. *)
C26_Original == \A t \in TaskIds : Enqueued(t) ~> Processed(t)

(* Two batches were uploaded to the study, both jobs have ended, and one of
   them returned without handling any file of its batch. *)
C26_Witness ==
    /\ \A t \in TaskIds : Enqueued(t)
    /\ msgs = {}
    /\ \A e \in ExecIds : exec[e].pc = "done"
    /\ \E t \in TaskIds : ~Processed(t)
    /\ \E t \in TaskIds : Processed(t)

----------------------------------------------------------------------------
(* Audit records of the final status *)

(* The action of the audit record that goes with a final study status. *)
ActionFor(status) == IF status = "completed" THEN "update" ELSE "failed"

AuditsOf(action, s, t) == CopiesIn(AuditRow(action, s, t), audit)

(* e writes the audit record that follows its final study save. *)
WritesFinalAudit(e) == exec[e].pc = "final_audit" /\ exec'[e].pc = "final_task"

(* e's exception handler sets the study failed in this step (line 342). *)
HandlerSetsStudyFailed(e) ==
    /\ exec[e].pc = "except" /\ exec'[e].pc = "except_task"
    /\ StudyExists(exec[e].study_id)

InHandler(e) == exec[e].pc \in {"except", "except_task", "retry"}

(* C27 as stated: whenever an execution sets the study completed or failed,
   an audit record for the study with the matching action and the job's id is
   appended, on the item-error path, the success path and the
   uncaught-exception path (whose handler writes nothing after its update, so
   the record would have to be there when the update is done). *)
C27_Original ==
    [][\A e \in ExecIds :
          /\ WritesFinalAudit(e) =>
                AuditsOf(ActionFor(exec[e].study.status), exec[e].study_id, exec[e].task)'
                    = AuditsOf(ActionFor(exec[e].study.status), exec[e].study_id,
                               exec[e].task) + 1
          /\ HandlerSetsStudyFailed(e) =>
                AuditsOf("failed", exec[e].study_id, exec[e].task)' >= 1]_vars

(* C27, amended: on the item-error path and the success path the statement
   after the final study save appends one audit record for the study with
   the job's id, action update for completed and failed for failed; on the
   uncaught-exception path the handler sets the study failed and appends no
   audit record. *)
C27_AuditOnFinalPaths ==
    [][\A e \in ExecIds :
          /\ WritesFinalAudit(e) =>
                AuditsOf(ActionFor(exec[e].study.status), exec[e].study_id, exec[e].task)'
                    = AuditsOf(ActionFor(exec[e].study.status), exec[e].study_id,
                               exec[e].task) + 1
          /\ SavesFinalStudy(e) =>
                studies'[exec[e].study_id].status = exec'[e].study.status
          /\ InHandler(e) /\ Steps(e) => audit' = audit]_vars

(* An execution has ended by raising after its handler set the study failed,
   and the log holds its process record but no failed record for the job. *)
C27_Witness ==
    \E e \in ExecIds :
        /\ exec[e].pc = "done" /\ exec[e].result = "raised"
        /\ studies[exec[e].study_id].status = "failed"
        /\ AuditsOf("process", exec[e].study_id, exec[e].task) >= 1
        /\ AuditsOf("failed", exec[e].study_id, exec[e].task) = 0

----------------------------------------------------------------------------
(* Release of the lock key *)

(* e runs the cache.delete of its finally block in this step. *)
Releases(e) == exec[e].pc = "release" /\ exec'[e].pc = "done"

(* b acquired the key of a's study while a was between its own acquisition
   and its release, and b is still running under the entry it wrote: a's
   entry had expired and the entry now in the cache is b's. *)
HoldsAfterExpiry(b, a) ==
    /\ a # b
    /\ exec[b].study_id = exec[a].study_id
    /\ exec[b].overlapped /\ InLocked(b)
    /\ exec[a].pc = "release"
    /\ cache[exec[b].study_id] # NoTask

(* C28 as stated: the release step removes the lock entry only if the entry
   was written by the same execution: when A's entry has expired and B has
   acquired the key, A's cleanup leaves B's entry in place, so the key cannot
   be acquired while B is running. *)
C28_Original ==
    [][\A a, b \in ExecIds :
          HoldsAfterExpiry(b, a) /\ Releases(a) =>
              /\ cache'[exec[a].study_id] = cache[exec[a].study_id]
              /\ ~CacheAdd(exec[a].study_id)']_vars

(* C28, amended: the release step removes whatever entry is under the key:
   after it the key is absent, also when the entry was written by another
   execution B that acquired the key after A's entry expired; a further
   cache.add on the key then succeeds while B is still running. *)
C28_ReleaseIsUnconditional ==
    [][\A a \in ExecIds :
          Releases(a) =>
              /\ cache'[exec[a].study_id] = NoTask
              /\ CacheAdd(exec[a].study_id)'
              /\ \A b \in ExecIds :
                    HoldsAfterExpiry(b, a) => InLocked(b)' /\ exec'[b] = exec[b]]_vars

(* A's entry expired, B acquired the key and is still running, A has ended,
   and the key is free. *)
C28_Witness ==
    \E a, b \in ExecIds :
        /\ a # b /\ exec[a].study_id = exec[b].study_id
        /\ exec[a].study_id \in ttlElapsed
        /\ exec[a].pc = "done" /\ exec[a].result \in {"batch", "raised"}
        /\ exec[b].overlapped /\ InLocked(b)
        /\ CacheAdd(exec[b].study_id)

----------------------------------------------------------------------------
(* One image job on a study without a retention deadline, and runs of
   calculate_retention_dates at any moment of the job. *)
InitJobBackfill ==
    \E st \in {"pending", "failed"}, d \in StudyDates :
        InitWith([s \in StudyIds |->
                    IF s = 1 THEN [StudyRow(st, NoDate) EXCEPT !.study_date = d]
                    ELSE Unbound])

NextJobBackfill ==
    \/ \E kinds \in Batches(MaxLen) : UploadImages(1, 1, kinds)
    \/ \E m \in msgs : Begin(1, m)
    \/ GetOrCreate(1)
    \/ LockedStudyTxn(1)
    \/ ProcessItem(1)
    \/ CreateImage(1)
    \/ SaveFinalStudy(1)
    \/ FinalAudit(1)
    \/ FinalTask(1)
    \/ Release(1)
    \/ \E r \in RunIds : BackfillSelect(r)
    \/ \E r \in RunIds : BackfillSave(r)
    \/ \E r \in RunIds : BackfillReturn(r)

SpecJobBackfill == InitJobBackfill /\ [][NextJobBackfill]_vars

(* C29 as stated: process_dicom_images_async changes only the status, error
   message and processing version of the study: a retention deadline that
   calculate_retention_dates set while the job was between loading the study
   row and its final save is still set after each step of the job. *)
C29_Original ==
    [][\A e \in ExecIds :
          Steps(e) =>
              \A s \in StudyIds :
                  StudyExists(s) /\ StudyExists(s)' =>
                      /\ studies'[s].retention_until = studies[s].retention_until
                      /\ studies'[s].study_date = studies[s].study_date]_vars

(* The job has returned its batch and a run of calculate_retention_dates has
   returned having counted the study as updated, and the study has no
   retention deadline. *)
C29_Witness ==
    /\ exec[1].pc = "done" /\ exec[1].result = "batch"
    /\ \E r \in RunIds : backfill[r].pc = "done" /\ backfill[r].updated_count = 1
    /\ \A r \in RunIds : backfill[r].pc \in {"idle", "done"}
    /\ studies[1].retention_until = NoDate

----------------------------------------------------------------------------
(* C30 as stated: when an execution that ran its batch returns, the saved job
   record's failed_items equals the number of items that produced an error in
   that execution (the result's errors count) and does not exceed
   total_items, also when the execution reuses an existing job record. *)
C30_Original ==
    [][\A e \in ExecIds :
          ReturnsBatch(e) =>
              LET job == tasks'[exec[e].task]
              IN  /\ job.failed_items = Len(exec[e].errors)
                  /\ job.failed_items = job.result.errors
                  /\ job.failed_items <= job.total_items]_vars

(* A re-delivered execution has returned its batch of one file with one
   error, and its job record counts two failed items of one. *)
C30_Witness ==
    \E e \in ExecIds :
        /\ exec[e].result = "batch"
        /\ Len(exec[e].errors) = 1
        /\ tasks[exec[e].task].total_items = 1
        /\ tasks[exec[e].task].result.errors = 1
        /\ tasks[exec[e].task].failed_items = 2

TypeOK ==
    /\ \A s \in StudyIds : cache[s] \in TaskIds \cup {NoTask}
    /\ faults \in 0..MaxChainFaults
    /\ \A t \in TaskIds : attempts[t] \in 0..(max_retries + 1)
    /\ \A e \in ExecIds : exec[e].idx \in 0..(MaxLongLen + 2)
    /\ \A p \in PatientIds : pdfCache[p] \in PdfTaskIds \cup {NoTask}
    /\ \A e \in PdfExecIds : pdfExec[e].pc \in PdfLockedPcs \cup {"idle", "peek", "done"}

====
